---- MODULE Spec2Model ----
(***************************************************************************)
(* Reactive update pipeline of purr: ContentWatcher -> consume loop ->     *)
(* ReactivePipeline.handle_change -> differ / graph / mapper ->            *)
(* Broadcaster queues.                                                     *)
(*                                                                         *)
(* Messages in subscriber queues carry two history fields, "page" (the     *)
(* permalink the push was made for) and "chg" (the change being handled),  *)
(* which the Python objects do not carry; they only serve the properties.  *)
(***************************************************************************)
EXTENDS Integers, Sequences, FiniteSets, TLC

\* ------------------------------------------------------------------------
\* Bounds
\* ------------------------------------------------------------------------
MaxChanges == 2   \* filesystem changes of a run of the application
MaxCalls == 2     \* direct calls of handle_change
MaxPushes == 1    \* push_full_refresh calls made while other threads subscribe
MaxUpdates == 2   \* block updates in one push_updates call
MaxDiffLen == 2   \* changes in one map_changes call
MaxDocLen == 3    \* top-level nodes of a document given to diff_documents
MaxStrLen == 3    \* characters of a source text given to _compute_edit_region
MaxPathLen == 3   \* segments of an absolute path given to categorize_change
MaxLeftover == 2  \* ContentWatcher.stop calls whose join times out

\* ------------------------------------------------------------------------
\* The site, the files and the documents
\* ------------------------------------------------------------------------
Files == {"f1", "f2", "f3"}
Sources == {"s1", "s2", "s3", "bad"}
Conns == {"c1", "c2"}
Permalinks == {"/a", "/b", "/v", "/c"}
Templates == {"page.html", "alt.html", "post.html", "base.html"}
Categories == {"content", "template", "config", "asset", "route"}

NoNode == [type |-> "None", val |-> ""]
NodeH == [type |-> "Heading", val |-> "Intro"]
NodeH2 == [type |-> "Heading", val |-> "Changed"]
NodeP == [type |-> "Paragraph", val |-> "new"]

\* patitas.parse on the source texts of the model: s1 and s3 differ as text
\* and parse to the same document, "bad" makes the parser raise.
Parse(s) ==
  CASE s = "s1" -> [ok |-> TRUE, doc |-> <<NodeH>>]
    [] s = "s2" -> [ok |-> TRUE, doc |-> <<NodeH2, NodeP>>]
    [] s = "s3" -> [ok |-> TRUE, doc |-> <<NodeH>>]
    [] OTHER -> [ok |-> FALSE, doc |-> <<>>]

\* site.pages, in iteration order: two pages backed by f1 (the second with an
\* explicit template), one virtual page without a source file, and one page
\* backed by f3, a file nobody edits.
Pages ==
  << [source_path |-> "f1", href |-> "/a", template |-> ""],
     [source_path |-> "f1", href |-> "/b", template |-> "alt.html"],
     [source_path |-> "None", href |-> "/v", template |-> ""],
     [source_path |-> "f3", href |-> "/c", template |-> "post.html"] >>

_DEFAULT_TEMPLATE == "page.html"

resolve_template_name(page) ==
  IF page.template # "" THEN page.template ELSE _DEFAULT_TEMPLATE

get_permalink(page) == page.href

\* template.block_metadata() of the engine, as (block, depends_on) pairs in
\* the engine's order; a template the engine does not know raises.
EngineBlockMetadata(t) ==
  CASE t = "page.html" ->
         [ok |-> TRUE,
          meta |-> << [block |-> "content", deps |-> {"content", "toc"}],
                      [block |-> "sidebar", deps |-> {"toc"}] >>]
    [] t = "alt.html" ->
         [ok |-> TRUE, meta |-> << [block |-> "footer", deps |-> {"site"}] >>]
    [] t = "post.html" ->
         [ok |-> TRUE, meta |-> << [block |-> "content", deps |-> {"content"}] >>]
    [] OTHER -> [ok |-> FALSE, meta |-> <<>>]

\* template_metadata().extends of the engine.
EngineExtends(t) ==
  CASE t = "page.html" -> "base.html"
    [] t = "alt.html" -> "base.html"
    [] t = "post.html" -> "page.html"
    [] OTHER -> "None"

\* ------------------------------------------------------------------------
\* content/differ.py
\* ------------------------------------------------------------------------
\* Variant of ASTChange that stores the two nodes the other way round.
ASTChange_swapped(kind, path, old_node, new_node) ==
  [kind |-> kind, path |-> path, old_node |-> new_node, new_node |-> old_node]

ASTChange(kind, path, old_node, new_node) ==
  [kind |-> kind, path |-> path, old_node |-> old_node, new_node |-> new_node]

\* Variant of max that returns its first argument.
Max_first(a, b) == a

Max(a, b) == IF a > b THEN a ELSE b

\* i is the 0-based child index of the Python loop.
RECURSIVE diff_children(_, _, _, _)
diff_children(old_children, new_children, parent_path, i) ==
  IF i >= Max(Len(old_children), Len(new_children)) THEN <<>>
  ELSE
    LET path == Append(parent_path, i)
        here ==
          IF i >= Len(old_children)
            THEN << ASTChange("added", path, NoNode, new_children[i + 1]) >>
          ELSE IF i >= Len(new_children)
            THEN << ASTChange("removed", path, old_children[i + 1], NoNode) >>
          ELSE IF old_children[i + 1] = new_children[i + 1]
            THEN <<>>
          ELSE IF old_children[i + 1].type = new_children[i + 1].type
            THEN << ASTChange("modified", path,
                              old_children[i + 1], new_children[i + 1]) >>
          ELSE << ASTChange("removed", path, old_children[i + 1], NoNode),
                  ASTChange("added", path, NoNode, new_children[i + 1]) >>
    IN here \o diff_children(old_children, new_children, parent_path, i + 1)

\* Variant of diff_documents that compares the new document with nothing.
diff_documents_from_empty(old, new) == diff_children(<<>>, new, <<>>, 0)

diff_documents(old, new) == diff_children(old, new, <<>>, 0)

\* ------------------------------------------------------------------------
\* reactive/mapper.py
\* ------------------------------------------------------------------------
FALLBACK_CONTEXT_PATHS == {"content", "toc", "page"}

CONTENT_CONTEXT_MAP(node_type) ==
  CASE node_type = "Heading" -> {"content", "toc"}
    [] node_type \in {"Paragraph", "FencedCode", "IndentedCode", "List",
                      "ListItem", "BlockQuote", "Table", "ThematicBreak",
                      "Directive", "MathBlock", "FootnoteDef", "HtmlBlock"}
         -> {"content"}
    [] OTHER -> FALLBACK_CONTEXT_PATHS

\* Variant of BlockUpdate that carries the block's name as its only path.
BlockUpdate_block_as_path(permalink, template_name, block_name, context_paths) ==
  [permalink |-> permalink, template_name |-> template_name,
   block_name |-> block_name, context_paths |-> {block_name}]

BlockUpdate(permalink, template_name, block_name, context_paths) ==
  [permalink |-> permalink, template_name |-> template_name,
   block_name |-> block_name, context_paths |-> context_paths]

RECURSIVE blocks_overlapping(_, _, _, _)
blocks_overlapping(block_metadata, affected_paths, template_name, permalink) ==
  IF block_metadata = <<>> THEN <<>>
  ELSE
    LET b == Head(block_metadata)
        overlap == b.deps \cap affected_paths
        rest == blocks_overlapping(Tail(block_metadata), affected_paths,
                                   template_name, permalink)
    IN IF overlap # {}
         THEN << BlockUpdate(permalink, template_name, b.block, overlap) >> \o rest
         ELSE rest

\* Variant of map_changes that looks at the last change only.
map_changes_last_only(changes, template_name, block_metadata, permalink) ==
  IF changes = <<>> THEN <<>>
  ELSE
    LET node(ch) == IF ch.new_node # NoNode THEN ch.new_node ELSE ch.old_node
        last == changes[Len(changes)]
        affected_paths ==
          IF node(last) = NoNode THEN {} ELSE CONTENT_CONTEXT_MAP(node(last).type)
    IN IF affected_paths = {} THEN <<>>
       ELSE blocks_overlapping(block_metadata, affected_paths,
                               template_name, permalink)

map_changes(changes, template_name, block_metadata, permalink) ==
  IF changes = <<>> THEN <<>>
  ELSE
    LET node(ch) == IF ch.new_node # NoNode THEN ch.new_node ELSE ch.old_node
        affected_paths ==
          UNION { CONTENT_CONTEXT_MAP(node(changes[k]).type) :
                    k \in { j \in 1..Len(changes) : node(changes[j]) # NoNode } }
    IN IF affected_paths = {} THEN <<>>
       ELSE blocks_overlapping(block_metadata, affected_paths,
                               template_name, permalink)

\* ------------------------------------------------------------------------
\* reactive/broadcaster.py, on the subscriber map and the queues.
\* The subscriber map is a function whose domain is the dict's key set.
\* ------------------------------------------------------------------------
Fragment(u, chg) ==
  [kind |-> "fragment", page |-> u.permalink, block |-> u.block_name, chg |-> chg]
RefreshEvent(permalink, chg) ==
  [kind |-> "purr:refresh", page |-> permalink, block |-> "", chg |-> chg]
ErrorEvent(chg) ==
  [kind |-> "purr:error", page |-> "", block |-> "", chg |-> chg]

\* SSEConnection objects: "c1b" is a second object built with the client_id
\* and the permalink of "c1"; every object has a queue of its own.
ConnClientId(c) == IF c = "c1b" THEN "c1" ELSE c

\* The page of each connection: sse_handler subscribes a connection under
\* the permalink of its "page" query parameter.
ConnPermalink(c) ==
  CASE c = "c1" -> "/a"
    [] c = "c1b" -> "/a"
    [] c = "c2" -> "/b"
    [] OTHER -> "/v"

\* The frozen dataclass compares and hashes by client_id and permalink; the
\* queue field has compare=False, hash=False.
conn_key_with_queue(c) ==
  [client_id |-> ConnClientId(c), permalink |-> ConnPermalink(c), queue |-> c]

conn_key(c) == [client_id |-> ConnClientId(c), permalink |-> ConnPermalink(c)]

\* set.add keeps the element already in the set when an equal one is added;
\* set.discard removes the element equal to its argument.
set_add(s, c) == IF \E x \in s : conn_key(x) = conn_key(c) THEN s ELSE s \cup {c}
set_discard(s, c) == { x \in s : conn_key(x) # conn_key(c) }

subscribe(subs, permalink, conn) ==
  IF permalink \in DOMAIN subs
    THEN [subs EXCEPT ![permalink] = set_add(@, conn)]
    ELSE [p \in DOMAIN subs \cup {permalink} |->
            IF p = permalink THEN {conn} ELSE subs[p]]

\* Variant of unsubscribe that forgets every subscription of every page.
unsubscribe_everyone(subs, permalink, conn) == << >>

unsubscribe(subs, permalink, conn) ==
  LET left == IF permalink \in DOMAIN subs
                THEN set_discard(subs[permalink], conn) ELSE {}
  IN IF left = {}
       THEN [p \in DOMAIN subs \ {permalink} |-> subs[p]]
       ELSE [subs EXCEPT ![permalink] = left]

\* Variant of get_subscribers that ignores the page: every connection of
\* every page.
get_subscribers_any_page(subs, permalink) ==
  UNION { subs[p] : p \in DOMAIN subs }

get_subscribers(subs, permalink) ==
  IF permalink \in DOMAIN subs THEN subs[permalink] ELSE {}

\* The dict after self._subscribers.get(permalink, set()): dict.get inserts
\* nothing, unlike the defaultdict's subscript.
dict_after_get_inserting(subs, permalink) ==
  IF permalink \in DOMAIN subs THEN subs
  ELSE [p \in DOMAIN subs \cup {permalink} |->
          IF p = permalink THEN {} ELSE subs[p]]

dict_after_get(subs, permalink) == subs

\* Variant of get_subscribed_pages that returns one subscribed page only.
get_subscribed_pages_one(subs) ==
  IF DOMAIN subs = {} THEN {} ELSE { CHOOSE p \in DOMAIN subs : TRUE }

get_subscribed_pages(subs) == DOMAIN subs

subscriber_count(subs) ==
  LET RECURSIVE total(_)
      total(ps) == IF ps = {} THEN 0
                   ELSE LET p == CHOOSE x \in ps : TRUE
                        IN Cardinality(subs[p]) + total(ps \ {p})
  IN total(DOMAIN subs)

\* SSEConnection.queue is asyncio.Queue(): maxsize is 0, which asyncio reads
\* as "no limit".
maxsize == 0

\* asyncio.Queue.full
full(sq) == maxsize > 0 /\ Len(sq) >= maxsize

\* put_nowait of one message on every connection of a snapshot; QueueFull
\* is swallowed and the message dropped.
\* Variant of the enqueue loop that reaches the first connection only.
put_all_first_only(q, conns, msg) ==
  [c \in DOMAIN q |->
     IF conns # {} /\ c = (CHOOSE x \in conns : TRUE) THEN Append(q[c], msg) ELSE q[c]]

put_all(q, conns, msg) ==
  [c \in DOMAIN q |-> IF c \in conns /\ ~full(q[c]) THEN Append(q[c], msg) ELSE q[c]]

RECURSIVE push_updates(_, _, _, _)
push_updates(subs, q, updates, chg) ==
  IF updates = <<>> THEN [queue |-> q, count |-> 0]
  ELSE
    LET update == Head(updates)
        subscribers_ == get_subscribers(subs, update.permalink)
        q1 == put_all(q, subscribers_, Fragment(update, chg))
        rest == push_updates(subs, q1, Tail(updates), chg)
    IN [queue |-> rest.queue,
        count |-> Cardinality({c \in subscribers_ : ~full(q[c])}) + rest.count]

push_full_refresh(subs, q, permalink, chg) ==
  LET subscribers_ == get_subscribers(subs, permalink)
  IN [queue |-> put_all(q, subscribers_, RefreshEvent(permalink, chg)),
      count |-> Cardinality({c \in subscribers_ : ~full(q[c])})]

\* ------------------------------------------------------------------------
\* content/watcher.py: categorize_change on the path parts relative to root
\* ------------------------------------------------------------------------
content_dir == "content"
templates_dir == "templates"
static_dir == "static"
routes_dir == "routes"

categorize_change(parts) ==
  IF parts = <<>> THEN "None"
  ELSE IF Len(parts) = 1 /\ parts[1] \in {"purr.yaml", "purr.yml", "purr.toml"}
    THEN "config"
  ELSE IF parts[1] = content_dir THEN "content"
  ELSE IF parts[1] = templates_dir THEN "template"
  ELSE IF parts[1] = static_dir THEN "asset"
  ELSE IF parts[1] = routes_dir THEN "route"
  ELSE "None"

\* path.relative_to(config.root) on absolute paths given as their segments:
\* the segments after root, or ValueError when path is not under root.
relative_to_lenient(path, root) ==
  IF Len(root) <= Len(path) /\ SubSeq(path, 1, Len(root)) = root
    THEN [ok |-> TRUE, parts |-> SubSeq(path, Len(root) + 1, Len(path))]
    ELSE [ok |-> TRUE, parts |-> path]

relative_to(path, root) ==
  IF Len(root) <= Len(path) /\ SubSeq(path, 1, Len(root)) = root
    THEN [ok |-> TRUE, parts |-> SubSeq(path, Len(root) + 1, Len(path))]
    ELSE [ok |-> FALSE, parts |-> <<>>]

\* categorize_change(path, config) with the root and the directory names
\* taken from config.
categorize_change_config(path, config) ==
  LET rel == relative_to(path, config.root)
      parts == rel.parts
  IN IF ~rel.ok THEN "None"
     ELSE IF parts = <<>> THEN "None"
     ELSE IF Len(parts) = 1 /\ parts[1] \in {"purr.yaml", "purr.yml", "purr.toml"}
       THEN "config"
     ELSE IF parts[1] = config.content_dir THEN "content"
     ELSE IF parts[1] = config.templates_dir THEN "template"
     ELSE IF parts[1] = config.static_dir THEN "asset"
     ELSE IF parts[1] = config.routes_dir THEN "route"
     ELSE "None"

\* The paths the filesystem reports in the model.
RawPaths ==
  { <<"content", "f1">>, <<"content", "f2">>,
    <<"templates", "page.html">>, <<"templates", "alt.html">>,
    <<"templates", "base.html">>, <<"purr.yaml">>, <<"static", "style.css">>, <<"routes", "r.py">>,
    <<"README.md">> }

PathName(parts) == parts[Len(parts)]

ChangeEvent(id, parts, category) ==
  [id |-> id, path |-> parts, category |-> category]

\* ------------------------------------------------------------------------
\* State
\* ------------------------------------------------------------------------
VARIABLES
  disk,             \* file -> source text on disk, or "unreadable"
  content_cache,    \* ReactivePipeline._content_cache: file -> entry
  page_html,        \* page.html_content of each page of site.pages
  kida_env,         \* app._kida_env is set (the app has been frozen)
  block_meta_cache, \* DependencyGraph._block_meta_cache: template -> metadata
  extends_map,      \* DependencyGraph._extends_map
  subscribers,      \* Broadcaster._subscribers
  queue,            \* SSEConnection.queue of each connection
  wthread,          \* ContentWatcher._thread: "none" or "alive"
  stop_event,       \* ContentWatcher._stop_event
  leftover,         \* live _watch_loop threads that _thread no longer refers to
  wqueue,           \* ContentWatcher._queue
  fs_pending,       \* changes the filesystem watch has seen and not yet yielded
  batch,            \* rest of the batch _watch_loop is iterating
  app_phase,        \* "init", "up" (startup hook ran), "down" (shutdown hook ran)
  pc,               \* position of the _consume_events task
  cur,              \* the event handle_change is handling
  h,                \* locals of the running handle_change call, and history
  next_id,          \* number of the next filesystem change
  reported,         \* the changes, in the order the watch yielded them
  handled,          \* ids of the changes passed to handle_change, in order
  fs_log,           \* history: ids of the categorised changes made while the app is up
  stream,           \* connection -> state of its EventStream generator
  g,                \* history: the last direct query of the dependency graph
  bc                \* Broadcaster._lock and the threads inside Broadcaster methods

vars == << disk, content_cache, page_html, kida_env, block_meta_cache,
           extends_map, subscribers, queue, wthread, stop_event, leftover, wqueue,
           fs_pending, batch, app_phase, pc, cur, h, next_id, reported,
           handled, fs_log, stream, g, bc >>

NoEntry == [present |-> FALSE, doc |-> <<>>, source |-> ""]
\* Variant of _CachedContent that keeps the document and forgets the source
\* text it was parsed from.
_CachedContent_no_source(doc, source) == [present |-> TRUE, doc |-> doc, source |-> ""]

_CachedContent(doc, source) == [present |-> TRUE, doc |-> doc, source |-> source]

NoEvent == ChangeEvent(0, <<>>, "None")
NoMap == [built |-> FALSE, children |-> [t \in Templates |-> {}]]

PageIdx == 1..Len(Pages)

\* self._md_renderer(body) on the body of a source text.
Render(source) == <<"html", source>>
NoHtml == <<"html", "">>

EventFile(event) == event.path[2]

\* Variant of seed_page in which a file that cannot be read or parsed makes
\* the exception escape the loop.
seed_page_abort(cache, d, page) ==
  IF page.source_path = "None" THEN [cache |-> cache, escaped |-> FALSE]
  ELSE IF d[page.source_path] = "unreadable" \/ ~Parse(d[page.source_path]).ok
    THEN [cache |-> cache, escaped |-> TRUE]
  ELSE [cache |-> [cache EXCEPT ![page.source_path] =
                     [present |-> TRUE, doc |-> Parse(d[page.source_path]).doc,
                      source |-> d[page.source_path]]],
        escaped |-> FALSE]

\* seed_ast_cache: one iteration of the loop over site.pages.  The read and
\* the parse are inside the try block of the iteration, so nothing escapes.
seed_page(cache, d, page) ==
  IF page.source_path = "None" THEN [cache |-> cache, escaped |-> FALSE]
  ELSE IF d[page.source_path] = "unreadable" \/ ~Parse(d[page.source_path]).ok
    THEN [cache |-> cache, escaped |-> FALSE]
  ELSE [cache |-> [cache EXCEPT ![page.source_path] =
                     _CachedContent(Parse(d[page.source_path]).doc,
                                    d[page.source_path])],
        escaped |-> FALSE]

RECURSIVE seed_loop(_, _, _)
seed_loop(cache, d, i) ==
  IF i > Len(Pages) THEN cache
  ELSE LET r == seed_page(cache, d, Pages[i])
       IN IF r.escaped THEN r.cache ELSE seed_loop(r.cache, d, i + 1)

\* The cache is keyed by the file: page.source_path and the path of a change
\* event are taken to spell the same file the same way.
seed_ast_cache(d) == seed_loop([f \in Files |-> NoEntry], d, 1)

\* The last query of the dependency graph made from outside the pipeline:
\* what was asked, what the caches held, whether the engine was consulted
\* and what came back.
G0 ==
  [op |-> "none", name |-> "", category |-> "None", env |-> FALSE,
   cached |-> FALSE, asked |-> FALSE, raises |-> FALSE,
   deps |-> <<>>, children |-> {}, cascade |-> FALSE,
   prior_deps |-> <<>>, prior_children |-> {},
   shared |-> FALSE,    \* the returned object is the graph's own container
   accessor |-> "",     \* caller_mutates: the accessor whose result it was
   updates |-> <<>>, page |-> "", count |-> 0,   \* a direct push: arguments, result
   pre_subs |-> << >>, pre_queue |-> << >>, post_queue |-> << >>,
   changes |-> <<>>, meta |-> <<>>, template |-> "",  \* a direct map_changes call
   old |-> <<>>, new |-> <<>>,                        \* a direct diff_documents call
   path |-> <<>>, config |-> <<>>,                    \* one _watch_loop iteration
   subscriptions |-> {},   \* direct Broadcaster calls: (page, client_id, permalink) subscribed
   twice |-> {},           \* and the pages where a second, equal object was subscribed
   result |-> <<>>]

\* An entry of the record of the stages a call has gone through; page is
\* the index in site.pages for a stage of the page loop, 0 otherwise.
Stage(name, page) == [stage |-> name, page |-> page]

H0 ==
  [new_source |-> "", new_doc |-> <<>>, old_doc |-> <<>>, had_cache |-> FALSE,
   stages |-> <<>>, parser |-> [fn |-> "unset", args |-> <<>>],
   repeat |-> FALSE,   \* the call repeats the call before it, on the same event
   read_ok |-> FALSE, parse_ok |-> FALSE, diffed |-> FALSE, changes |-> <<>>,
   idx |-> 0, total_blocks_updated |-> 0, affected_permalinks |-> <<>>,
   updates |-> [i \in PageIdx |-> <<>>], mapped |-> {},
   fault |-> "none", raised |-> FALSE, escaped |-> FALSE, cancelled_at |-> "",
   pre_queue |-> [c \in Conns |-> <<>>],
   pre_cache |-> [f \in Files |-> NoEntry],
   pre_html |-> [i \in PageIdx |-> NoHtml]]

\* Threads that call Broadcaster methods at the same time: the event loop,
\* which pushes, and two others that subscribe and unsubscribe a connection.
Threads == {"loop", "m1", "m2"}
Mutators == {"m1", "m2"}
ThreadConn(t) == IF t = "m1" THEN "c1" ELSE "c2"
LockPages == {"/a", "/b"}

\* frozenset(x): a copy, which later changes of x do not reach.
\* Variant of frozenset that hands out the live set instead of a copy.
frozenset_live(x) == [live |-> TRUE, val |-> x]

frozenset(x) == [live |-> FALSE, val |-> x]

\* threading.Lock: acquire succeeds only while nobody holds the lock.
\* Variant of the lock that lets everybody in.
lock_free_always(lock) == TRUE

lock_free(lock) == lock = "free"

BC0 ==
  [lock |-> "free",
   tpc |-> [t \in Threads |-> "idle"],
   page |-> [t \in Threads |-> ""],
   pre |-> << >>,            \* history: the map when the lock was taken
   snap |-> frozenset({}),   \* push_full_refresh: subscribers
   at_snap |-> {},           \* history: the set the snapshot was taken of
   todo |-> {}, sent |-> {}, count |-> 0,
   pages |-> {},             \* the last get_subscribed_pages result
   pages_ok |-> TRUE,        \* history: each of its pages had a subscriber
   error |-> FALSE,          \* RuntimeError: Set changed size during iteration
   pushes |-> 0]

Init ==
  /\ disk \in { d \in [Files -> Sources \cup {"unreadable"}] :
                  /\ d["f1"] \in {"s1", "bad"}
                  /\ d["f2"] = "unreadable"
                  /\ d["f3"] = "s1" }
  /\ content_cache = seed_ast_cache(disk)
  /\ page_html = [i \in PageIdx |->
                    IF Pages[i].source_path = "None" THEN NoHtml
                    ELSE Render(disk[Pages[i].source_path])]
  /\ kida_env = FALSE
  /\ block_meta_cache = << >>
  /\ extends_map = NoMap
  /\ subscribers = << >>
  /\ queue = [c \in Conns |-> <<>>]
  /\ wthread = "none"
  /\ stop_event = FALSE
  /\ leftover = 0
  /\ wqueue = <<>>
  /\ fs_pending = <<>>
  /\ batch = <<>>
  /\ app_phase = "init"
  /\ pc = "none"
  /\ cur = NoEvent
  /\ h = H0
  /\ next_id = 1
  /\ stream = [c \in Conns |-> "none"]
  /\ g = G0
  /\ bc = BC0
  /\ reported = <<>>
  /\ handled = <<>>
  /\ fs_log = {}

\* ------------------------------------------------------------------------
\* reactive/graph.py
\* ------------------------------------------------------------------------
\* block_deps_for_template: the returned metadata and the cache afterwards.
\* analysis_raises: env.get_template or block_metadata raises at this call.
block_deps_for_template(cache, env, analysis_raises, template_name) ==
  IF template_name \in DOMAIN cache
    THEN [deps |-> cache[template_name], cache |-> cache]
  ELSE IF ~env
    THEN [deps |-> <<>>, cache |-> cache]
  ELSE
    LET r == EngineBlockMetadata(template_name)
        deps == IF r.ok /\ ~analysis_raises THEN r.meta ELSE <<>>
    IN [deps |-> deps,
        cache |-> [t \in DOMAIN cache \cup {template_name} |->
                     IF t = template_name THEN deps ELSE cache[t]]]

\* block_deps_for_template returns the dict object it has stored or found in
\* _block_meta_cache ("return self._block_meta_cache[template_name]",
\* "self._block_meta_cache[template_name] = deps; return deps"); only the
\* result of the engine-unavailable branch is an object of its own.
block_deps_returns_entry(cache_after, template_name) ==
  template_name \in DOMAIN cache_after

\* templates_extending returns self._extends_map.get(...).copy().
templates_extending_returns_entry == FALSE

\* Variant of invalidate_template_cache that leaves the entry in place.
invalidate_template_cache_keep(cache, template_name) == cache

invalidate_template_cache(cache, template_name) ==
  [t \in DOMAIN cache \ {template_name} |-> cache[t]]

\* invalidate_all_caches: the block metadata cache afterwards.
invalidate_all_caches == << >>

pages_using_template(template_name) ==
  { Pages[i].source_path : i \in { j \in PageIdx :
        /\ Pages[j].source_path # "None"
        /\ resolve_template_name(Pages[j]) = template_name } }

build_extends_map(env) ==
  IF ~env THEN [t \in Templates |-> {}]
  ELSE [parent \in Templates |-> { t \in Templates : EngineExtends(t) = parent }]

\* templates_extending: the children returned and _extends_map afterwards.
templates_extending(emap, env, template_name) ==
  LET m == IF emap.built THEN emap
           ELSE [built |-> TRUE, children |-> build_extends_map(env)]
  IN [children |-> m.children[template_name], emap |-> m]

\* The name heuristic of is_cascade_change on event.path.stem.lower().
NameLooksShared(template_name) == template_name \in {"base.html", "layout.html"}

is_cascade_change(emap, env, event) ==
  IF event.category = "config" THEN [cascade |-> TRUE, emap |-> emap]
  ELSE IF event.category = "template" THEN
    LET r == templates_extending(emap, env, PathName(event.path))
    IN [cascade |-> r.children # {} \/ NameLooksShared(PathName(event.path)),
        emap |-> r.emap]
  ELSE [cascade |-> FALSE, emap |-> emap]

\* ------------------------------------------------------------------------
\* reactive/pipeline.py: _compute_edit_region.  A string is a sequence of
\* characters; the code's indices are 0-based, so old[i] is old[i + 1] here.
\* ------------------------------------------------------------------------
\* min(len(old), len(new))
min_len_short(old, new) ==
  IF Len(old) = 0 \/ Len(new) = 0 THEN 0
  ELSE (IF Len(old) < Len(new) THEN Len(old) ELSE Len(new)) - 1

min_len(old, new) == IF Len(old) < Len(new) THEN Len(old) ELSE Len(new)

\* while start < min_len and old[start] == new[start]: start += 1
RECURSIVE scan_forward(_, _, _, _)
scan_forward(old, new, start, limit) ==
  IF start < limit /\ old[start + 1] = new[start + 1]
    THEN scan_forward(old, new, start + 1, limit)
    ELSE start

\* while old_end >= floor and new_end >= floor and old[old_end] == new[new_end]:
\*     old_end -= 1; new_end -= 1
RECURSIVE scan_backward(_, _, _, _, _)
scan_backward(old, new, old_end, new_end, floor) ==
  IF old_end >= floor /\ new_end >= floor /\ old[old_end + 1] = new[new_end + 1]
    THEN scan_backward(old, new, old_end - 1, new_end - 1, floor)
    ELSE [old_end |-> old_end, new_end |-> new_end]

\* _compute_edit_region: the common prefix, then, unless the strings are
\* identical, the common suffix scanned from the end down to the prefix.
compute_edit_region_overlapping(old, new) ==
  LET start == scan_forward(old, new, 0, min_len(old, new))
  IN IF start = Len(old) /\ Len(old) = Len(new)
       THEN << start, start, 0 >>
       ELSE LET r == scan_backward(old, new, Len(old) - 1, Len(new) - 1, 0)
            IN << start, r.old_end + 1, r.new_end - start + 1 >>

compute_edit_region(old, new) ==
  LET start == scan_forward(old, new, 0, min_len(old, new))
  IN IF start = Len(old) /\ Len(old) = Len(new)
       THEN << start, start, 0 >>
       ELSE LET r == scan_backward(old, new, Len(old) - 1, Len(new) - 1, start)
            IN << start, r.old_end + 1, r.new_end - start + 1 >>

\* ------------------------------------------------------------------------
\* reactive/pipeline.py: helpers
\* ------------------------------------------------------------------------
\* The characters of the source texts of the model.
SourceText(s) ==
  CASE s = "s1" -> << "a" >>
    [] s = "s2" -> << "a", "b" >>
    [] s = "s3" -> << "a", "a" >>
    [] s = "bad" -> << "b" >>
    [] OTHER -> << >>

\* patitas.incremental.parse_incremental(new_source, previous, edit_start,
\* edit_end, new_length): taken to return what a full parse of new_source
\* returns, and to raise when that raises.
parse_incremental(args) == Parse(args[1])

\* _parse_content_incremental: the parser it calls and the arguments it
\* passes; fn is "" when it returns cached.doc without parsing.
parser_call_full_on_change(new_source, cached) ==
  IF ~cached.present THEN [fn |-> "parse", args |-> << new_source >>]
  ELSE IF cached.source = new_source THEN [fn |-> "", args |-> << >>]
  ELSE [fn |-> "parse", args |-> << new_source >>]

parser_call(new_source, cached) ==
  IF ~cached.present THEN [fn |-> "parse", args |-> << new_source >>]
  ELSE IF cached.source = new_source THEN [fn |-> "", args |-> << >>]
  ELSE [fn |-> "parse_incremental",
        args |-> << new_source, cached.doc >>
                   \o compute_edit_region(SourceText(cached.source),
                                          SourceText(new_source))]

\* _parse_content_incremental: None (ok = FALSE) when the parser raises.
\* Variant of _parse_content_incremental that swallows the parser's
\* exception and returns an empty document.
parse_content_incremental_swallow(new_source, cached) ==
  IF cached.present /\ cached.source = new_source
    THEN [ok |-> TRUE, doc |-> cached.doc]
    ELSE IF Parse(new_source).ok THEN Parse(new_source)
    ELSE [ok |-> TRUE, doc |-> << >>]

parse_content_incremental(new_source, cached) ==
  LET call == parser_call(new_source, cached)
  IN CASE call.fn = "parse" -> Parse(call.args[1])
       [] call.fn = "parse_incremental" -> parse_incremental(call.args)
       [] OTHER -> [ok |-> TRUE, doc |-> cached.doc]

\* _update_page_html: only the first page backed by the file is re-rendered.
FirstPageOf(f) ==
  IF \E i \in PageIdx : Pages[i].source_path = f
    THEN CHOOSE i \in PageIdx :
           /\ Pages[i].source_path = f
           /\ \A j \in PageIdx : Pages[j].source_path = f => i <= j
    ELSE 0

update_page_html(html, f, source) ==
  IF FirstPageOf(f) = 0 THEN html
  ELSE [html EXCEPT ![FirstPageOf(f)] = Render(source)]

\* _broadcast_error: one purr:error per (subscribed page, subscriber) pair.
RECURSIVE broadcast_error(_, _, _, _)
broadcast_error(subs, q, pages, chg) ==
  IF pages = {} THEN q
  ELSE LET p == CHOOSE x \in pages : TRUE
       IN broadcast_error(subs, put_all(q, get_subscribers(subs, p), ErrorEvent(chg)),
                          pages \ {p}, chg)

\* for permalink in ...: await push_full_refresh(permalink), over a sequence
\* of permalinks; the chirp event class raising makes the first call raise.
RECURSIVE refresh_each(_, _, _, _, _)
refresh_each(subs, q, permalinks, chg, event_raises) ==
  IF permalinks = <<>> THEN [queue |-> q, raised |-> FALSE]
  ELSE IF event_raises THEN [queue |-> q, raised |-> TRUE]
  ELSE refresh_each(subs, push_full_refresh(subs, q, Head(permalinks), chg).queue,
                    Tail(permalinks), chg, event_raises)

\* A set of permalinks in some iteration order (frozenset iteration).
RECURSIVE SetToSeq(_)
SetToSeq(S) ==
  IF S = {} THEN <<>>
  ELSE LET x == CHOOSE y \in S : TRUE IN << x >> \o SetToSeq(S \ {x})

\* The page loop of _handle_template_change_inner from page i on:
\* Path(page.source_path) raises TypeError for a page without source file.
RECURSIVE refresh_pages_using(_, _, _, _, _, _)
refresh_pages_using(subs, q, affected_source_paths, i, chg, event_raises) ==
  IF i > Len(Pages) THEN [queue |-> q, raised |-> FALSE]
  ELSE IF Pages[i].source_path = "None" THEN [queue |-> q, raised |-> TRUE]
  ELSE IF Pages[i].source_path \in affected_source_paths
          /\ get_permalink(Pages[i]) # ""
    THEN IF event_raises THEN [queue |-> q, raised |-> TRUE]
         ELSE refresh_pages_using(
                subs, push_full_refresh(subs, q, get_permalink(Pages[i]), chg).queue,
                affected_source_paths, i + 1, chg, event_raises)
  ELSE refresh_pages_using(subs, q, affected_source_paths, i + 1, chg, event_raises)

\* ------------------------------------------------------------------------
\* The event loop.  Everything but the watcher thread runs on one asyncio
\* loop: a callback runs only while the consumer task is suspended.
\* ------------------------------------------------------------------------
\* The awaits at which the consumer task really suspends: the empty
\* queue.get() of changes() and the not yet started task.  push_updates,
\* push_full_refresh and queue.put on an unbounded queue return without
\* suspending, so handle_change runs from start to end without yielding.
\* Variant in which the pushes inside handle_change suspend as well.
AwaitSuspends_in_call(p) == p \in {"ready", "waiting", "h_page", "h_fallback"}

AwaitSuspends(p) == p \in {"ready", "waiting"}

\* Variant of the loop in which an enqueue made by the content handler waits
\* for room in the queue, so that other callbacks run in the meantime.
LoopFree_put_waits ==
  \/ pc \in {"none", "done", "cancelled", "h_page", "h_fallback"}
  \/ AwaitSuspends(pc)

LoopFree == pc \in {"none", "done", "cancelled"} \/ AwaitSuspends(pc)

is_running == wthread = "alive"

PipelineVars == << content_cache, page_html, block_meta_cache, extends_map >>
WatcherVars ==
  << wthread, stop_event, leftover, wqueue, fs_pending, batch, reported, fs_log >>
ConsumerVars == << pc, cur, h, handled >>

\* ContentRouter.register_sse_endpoint.sse_handler up to its return: the
\* connection is subscribed, and generate() is created but not yet iterated.
SseHandler(c) ==
  /\ LoopFree
  /\ stream[c] = "none"
  /\ subscribers' = subscribe(subscribers, ConnPermalink(c), c)
  /\ stream' = [stream EXCEPT ![c] = "pending"]
  /\ UNCHANGED bc
  /\ UNCHANGED << queue, disk, kida_env, app_phase, next_id, g >>
  /\ UNCHANGED << PipelineVars, WatcherVars, ConsumerVars >>

\* The server starts iterating generate(): the try block is entered and
\* client_generator waits in queue.get().
StreamStart(c) ==
  /\ LoopFree
  /\ stream[c] = "pending"
  /\ stream' = [stream EXCEPT ![c] = "streaming"]
  /\ UNCHANGED bc
  /\ UNCHANGED << subscribers, queue, disk, kida_env, app_phase, next_id, g >>
  /\ UNCHANGED << PipelineVars, WatcherVars, ConsumerVars >>

\* The client goes away before generate() was iterated once: the generator
\* is discarded unstarted, and a generator that never entered its try block
\* does not run its finally clause.
ClientAbort(c) ==
  /\ LoopFree
  /\ stream[c] = "pending"
  /\ stream' = [stream EXCEPT ![c] = "dropped"]
  /\ UNCHANGED bc
  /\ UNCHANGED << subscribers, queue, disk, kida_env, app_phase, next_id, g >>
  /\ UNCHANGED << PipelineVars, WatcherVars, ConsumerVars >>

\* A client connects and its stream starts: sse_handler followed by the
\* first step of generate(), with no disconnect in between.
SseConnect(c) ==
  /\ LoopFree
  /\ stream[c] = "none"
  /\ subscribers' = subscribe(subscribers, ConnPermalink(c), c)
  /\ stream' = [stream EXCEPT ![c] = "streaming"]
  /\ UNCHANGED bc
  /\ UNCHANGED << queue, disk, kida_env, app_phase, next_id, g >>
  /\ UNCHANGED << PipelineVars, WatcherVars, ConsumerVars >>

\* generate()'s finally: the client of a started stream went away, and its
\* connection object (with the queue) is dropped.
SseDisconnect(c) ==
  /\ LoopFree
  /\ stream[c] = "streaming"
  /\ subscribers' = unsubscribe(subscribers, ConnPermalink(c), c)
  /\ queue' = [queue EXCEPT ![c] = <<>>]
  /\ stream' = [stream EXCEPT ![c] = "none"]
  /\ UNCHANGED bc
  /\ g' = [G0 EXCEPT !.op = "client_generator.close", !.name = c]
  /\ UNCHANGED << disk, kida_env, app_phase, next_id >>
  /\ UNCHANGED << PipelineVars, WatcherVars, ConsumerVars >>

\* Broadcaster.client_generator: one event taken from the queue and yielded.
ClientDrain(c) ==
  /\ LoopFree
  /\ stream[c] = "streaming"
  /\ queue[c] # <<>>
  /\ queue' = [queue EXCEPT ![c] = Tail(@)]
  /\ UNCHANGED << subscribers, disk, kida_env, app_phase, next_id >>
  /\ UNCHANGED << PipelineVars, WatcherVars, ConsumerVars >>
  /\ UNCHANGED << stream, g, bc >>

\* Chirp freezes the app (first request): app._kida_env becomes available.
Freeze ==
  /\ LoopFree
  /\ ~kida_env
  /\ kida_env' = TRUE
  /\ UNCHANGED << subscribers, queue, disk, app_phase, next_id >>
  /\ UNCHANGED << PipelineVars, WatcherVars, ConsumerVars >>
  /\ UNCHANGED << stream, g, bc >>

\* _start_watcher._start_event_consumer: creates the task, and nothing else.
StartupHook ==
  /\ app_phase = "init"
  /\ LoopFree
  /\ app_phase' = "up"
  /\ pc' = "ready"
  /\ UNCHANGED << cur, h, handled, subscribers, queue, disk, kida_env, next_id >>
  /\ UNCHANGED << PipelineVars, WatcherVars >>
  /\ UNCHANGED << stream, g, bc >>

\* _start_watcher._stop_event_consumer: cancels the task unless it is done.
StopHook ==
  /\ app_phase = "up"
  /\ LoopFree
  /\ app_phase' = "down"
  /\ pc' = IF pc \in {"none", "done"} THEN pc ELSE "cancelled"
  /\ h' = [h EXCEPT !.cancelled_at = pc]
  /\ UNCHANGED << cur, handled, subscribers, queue, disk, kida_env, next_id >>
  /\ UNCHANGED << PipelineVars, WatcherVars >>
  /\ UNCHANGED << stream, g, bc >>

\* ------------------------------------------------------------------------
\* content/watcher.py
\* ------------------------------------------------------------------------
\* ContentWatcher.start, a public method (no code of the repository calls it).
WatcherStart ==
  /\ LoopFree
  /\ ~is_running
  /\ stop_event' = FALSE
  /\ wthread' = "alive"
  /\ UNCHANGED << leftover, wqueue, fs_pending, batch, reported, fs_log >>
  /\ UNCHANGED << subscribers, queue, disk, kida_env, app_phase, next_id >>
  /\ UNCHANGED << PipelineVars, ConsumerVars >>
  /\ UNCHANGED << stream, g, bc >>

\* The user edits a file; a running watch sees the change.
FsChange(parts, src) ==
  /\ next_id <= MaxChanges
  /\ next_id' = next_id + 1
  /\ IF parts[1] = content_dir
       THEN disk' = [disk EXCEPT ![parts[2]] = src]
       ELSE disk' = disk /\ src = "s1"
  /\ fs_pending' = IF is_running
                     THEN Append(fs_pending, [id |-> next_id, path |-> parts])
                     ELSE fs_pending
  /\ fs_log' = IF app_phase = "up" /\ categorize_change(parts) # "None"
                 THEN fs_log \cup {next_id} ELSE fs_log
  /\ UNCHANGED << leftover, wthread, stop_event, wqueue, batch, reported >>
  /\ UNCHANGED << subscribers, queue, kida_env, app_phase >>
  /\ UNCHANGED << PipelineVars, ConsumerVars >>
  /\ UNCHANGED << stream, g, bc >>

\* The orders in which a batch (a set of changes) can be iterated.
RECURSIVE Orders(_)
Orders(sq) ==
  IF sq = <<>> THEN { <<>> }
  ELSE UNION { { << sq[i] >> \o r :
                  r \in Orders([j \in 1..(Len(sq) - 1) |->
                                  IF j < i THEN sq[j] ELSE sq[j + 1]]) } :
               i \in 1..Len(sq) }

\* _watch_loop: watch() yields the next batch.
WatchYield ==
  /\ is_running
  /\ ~stop_event
  /\ batch = <<>>
  /\ fs_pending # <<>>
  /\ batch' \in Orders(fs_pending)
  /\ fs_pending' = <<>>
  /\ reported' = reported \o batch'
  /\ UNCHANGED << leftover, wthread, stop_event, wqueue, fs_log >>
  /\ UNCHANGED << subscribers, queue, disk, kida_env, app_phase, next_id >>
  /\ UNCHANGED << PipelineVars, ConsumerVars >>
  /\ UNCHANGED << stream, g, bc >>

\* self._queue.put_nowait(event): the watcher's queue is first in, first out.
\* Variant of put_nowait for a last in, first out queue.
put_nowait_lifo(q, event) == <<event>> \o q

put_nowait(q, event) == Append(q, event)

\* _watch_loop: one iteration of the loop over the batch.
WatchPut ==
  /\ is_running
  /\ batch # <<>>
  /\ LET raw == Head(batch)
         category == categorize_change(raw.path)
     IN wqueue' = IF category = "None" THEN wqueue
                  ELSE put_nowait(wqueue, ChangeEvent(raw.id, raw.path, category))
  /\ batch' = Tail(batch)
  /\ UNCHANGED << leftover, wthread, stop_event, fs_pending, reported, fs_log >>
  /\ UNCHANGED << subscribers, queue, disk, kida_env, app_phase, next_id >>
  /\ UNCHANGED << PipelineVars, ConsumerVars >>
  /\ UNCHANGED << stream, g, bc >>

\* ------------------------------------------------------------------------
\* app.py: _consume_events over ContentWatcher.changes()
\* ------------------------------------------------------------------------
Faults == {"none", "render", "event", "analysis"}

\* The collaborators each handler calls outside a try block of its own.
FaultsOf(category) ==
  CASE category = "content" -> {"none", "render", "event", "analysis"}
    [] category = "route" -> {"none"}
    [] OTHER -> {"none", "event"}

\* The locals of a fresh handle_change call; fault says which collaborator
\* (the markdown renderer, the chirp event class, the template engine's
\* analysis) raises during the call.
StartCall(fault) ==
  [H0 EXCEPT !.fault = fault, !.pre_queue = queue,
             !.stages = << Stage("classified", 0) >>,
             !.pre_cache = content_cache, !.pre_html = page_html]

\* changes(): the while condition, then queue.get(); an event that is
\* already queued is returned without suspending.
ConsumerNext ==
  /\ pc \in {"ready", "returned", "waiting"}
  /\ app_phase # "init"
  /\ IF wqueue # <<>>
       THEN /\ cur' = Head(wqueue)
            /\ wqueue' = Tail(wqueue)
            /\ handled' = Append(handled, Head(wqueue).id)
            /\ \E fault \in FaultsOf(Head(wqueue).category) : h' = StartCall(fault)
            /\ pc' = "h_dispatch"
       ELSE /\ pc # "waiting" \/ ~is_running
            /\ pc' = IF is_running THEN "waiting" ELSE "done"
            /\ cur' = NoEvent
            /\ h' = H0
            /\ UNCHANGED << wqueue, handled >>
  /\ UNCHANGED << leftover, wthread, stop_event, fs_pending, batch, reported, fs_log >>
  /\ UNCHANGED << subscribers, queue, disk, kida_env, app_phase, next_id >>
  /\ UNCHANGED PipelineVars
  /\ UNCHANGED << stream, g, bc >>

\* ------------------------------------------------------------------------
\* reactive/pipeline.py: handle_change
\* ------------------------------------------------------------------------
HandlerFrame ==
  /\ UNCHANGED << cur, handled, stream, g, bc >>
  /\ UNCHANGED WatcherVars
  /\ UNCHANGED << subscribers, disk, kida_env, app_phase, next_id >>

AllSubscribedPages == get_subscribed_pages(subscribers)

\* _handle_content_change_inner: path.read_text
ReadSource ==
  /\ pc = "h_dispatch"
  /\ cur.category = "content"
  /\ IF disk[EventFile(cur)] = "unreadable"
       THEN /\ pc' = "returned"
            /\ h' = h
       ELSE /\ pc' = "h_parse"
            /\ h' = [h EXCEPT !.read_ok = TRUE, !.new_source = disk[EventFile(cur)]]
  /\ UNCHANGED << queue, PipelineVars >>
  /\ HandlerFrame

\* _handle_content_change_inner: _parse_content_incremental
ParseContent ==
  /\ pc = "h_parse"
  /\ LET cached == content_cache[EventFile(cur)]
         r == parse_content_incremental(h.new_source, cached)
     IN IF ~r.ok
          THEN /\ pc' = "returned"
               /\ h' = [h EXCEPT !.parser = parser_call(h.new_source, cached)]
          ELSE /\ pc' = "h_cache"
               /\ h' = [h EXCEPT !.parse_ok = TRUE, !.new_doc = r.doc,
                                 !.parser = parser_call(h.new_source, cached),
                                 !.stages = Append(@, Stage("parsed", 0)),
                                 !.had_cache = cached.present,
                                 !.old_doc = cached.doc]
  /\ UNCHANGED << queue, PipelineVars >>
  /\ HandlerFrame

\* _handle_content_change_inner: the cache entry is replaced, then
\* _update_page_html re-renders; a renderer that raises ends the call in
\* _broadcast_error.
UpdateCache ==
  /\ pc = "h_cache"
  /\ content_cache' = [content_cache EXCEPT
                         ![EventFile(cur)] = _CachedContent(h.new_doc, h.new_source)]
  /\ IF h.fault = "render" /\ FirstPageOf(EventFile(cur)) # 0
       THEN /\ page_html' = page_html
            /\ queue' = broadcast_error(subscribers, queue, AllSubscribedPages, cur.id)
            /\ h' = [h EXCEPT !.raised = TRUE,
                              !.stages = Append(@, Stage("errored", 0))]
            /\ pc' = "returned"
       ELSE /\ page_html' = update_page_html(page_html, EventFile(cur), h.new_source)
            /\ queue' = queue
            /\ h' = h
            /\ pc' = IF h.had_cache THEN "h_diff" ELSE "returned"
  /\ UNCHANGED << block_meta_cache, extends_map >>
  /\ HandlerFrame

\* _handle_content_change_inner: diff_documents
DiffDocs ==
  /\ pc = "h_diff"
  /\ LET changes == diff_documents(h.old_doc, h.new_doc)
     IN /\ h' = [h EXCEPT !.diffed = TRUE, !.changes = changes, !.idx = 1,
                          !.stages = Append(@, Stage("diffed", 0))]
        /\ pc' = IF changes = <<>> THEN "returned" ELSE "h_page"
  /\ UNCHANGED << queue, PipelineVars >>
  /\ HandlerFrame

\* _handle_content_change_inner: one iteration of the loop over site.pages.
\* (_try_recompile_blocks patches the engine's compiled template only; its
\* result, 0 on any failure, reaches the collector and nothing else.)  For a
\* page of the file the body runs _try_recompile_blocks, then map_changes,
\* then, if there are updates, push_updates.
PageLoop ==
  /\ pc = "h_page"
  /\ LET page == Pages[h.idx]
         template_name == resolve_template_name(page)
         r == block_deps_for_template(block_meta_cache, kida_env,
                                      h.fault = "analysis", template_name)
         permalink == get_permalink(page)
         updates == map_changes(h.changes, template_name, r.deps, permalink)
         pushed == push_updates(subscribers, queue, updates, cur.id)
         nxt == IF h.idx = Len(Pages) THEN "h_fallback" ELSE "h_page"
     IN IF page.source_path = "None" \/ page.source_path # EventFile(cur)
          THEN /\ h' = [h EXCEPT !.idx = @ + 1]
               /\ UNCHANGED << queue, block_meta_cache >>
               /\ pc' = nxt
          ELSE IF permalink = ""
            THEN /\ h' = [h EXCEPT !.idx = @ + 1]
                 /\ block_meta_cache' = r.cache
                 /\ queue' = queue
                 /\ pc' = nxt
          ELSE /\ block_meta_cache' = r.cache
               /\ queue' = pushed.queue
               /\ h' = [h EXCEPT
                          !.idx = @ + 1,
                          !.stages = @ \o << Stage("recompiled", h.idx),
                                             Stage("mapped", h.idx) >>
                                       \o (IF updates # <<>>
                                             THEN << Stage("broadcast", h.idx) >>
                                             ELSE <<>>),
                          !.affected_permalinks = Append(@, permalink),
                          !.mapped = @ \cup {h.idx},
                          !.updates = [@ EXCEPT ![h.idx] = updates],
                          !.total_blocks_updated = @ + Len(updates)]
               /\ pc' = nxt
  /\ UNCHANGED << content_cache, page_html, extends_map >>
  /\ HandlerFrame

\* _handle_content_change_inner: the full-refresh fallback
\* Variant of the fallback that does not look at total_blocks_updated.
Fallback_unconditional ==
  /\ pc = "h_fallback"
  /\ IF h.affected_permalinks # <<>>
       THEN LET r == refresh_each(subscribers, queue, h.affected_permalinks,
                                  cur.id, h.fault = "event")
            IN IF r.raised
                 THEN /\ queue' = broadcast_error(subscribers, r.queue,
                                                  AllSubscribedPages, cur.id)
                      /\ h' = [h EXCEPT !.raised = TRUE,
                                        !.stages = @ \o << Stage("broadcast", 0),
                                                           Stage("errored", 0) >>]
                 ELSE /\ queue' = r.queue
                      /\ h' = [h EXCEPT !.stages = Append(@, Stage("broadcast", 0))]
       ELSE /\ queue' = queue
            /\ h' = h
  /\ pc' = "returned"
  /\ UNCHANGED PipelineVars
  /\ HandlerFrame

Fallback ==
  /\ pc = "h_fallback"
  /\ IF h.total_blocks_updated = 0 /\ h.affected_permalinks # <<>>
       THEN LET r == refresh_each(subscribers, queue, h.affected_permalinks,
                                  cur.id, h.fault = "event")
            IN IF r.raised
                 THEN /\ queue' = broadcast_error(subscribers, r.queue,
                                                  AllSubscribedPages, cur.id)
                      /\ h' = [h EXCEPT !.raised = TRUE,
                                        !.stages = @ \o << Stage("broadcast", 0),
                                                           Stage("errored", 0) >>]
                 ELSE /\ queue' = r.queue
                      /\ h' = [h EXCEPT !.stages = Append(@, Stage("broadcast", 0))]
       ELSE /\ queue' = queue
            /\ h' = h
  /\ pc' = "returned"
  /\ UNCHANGED PipelineVars
  /\ HandlerFrame

\* _handle_template_change
HandleTemplate ==
  /\ pc = "h_dispatch"
  /\ cur.category = "template"
  /\ LET template_name == PathName(cur.path)
         cache1 == invalidate_template_cache(block_meta_cache, template_name)
         c == is_cascade_change(NoMap, kida_env, cur)
         r == IF c.cascade
                THEN refresh_each(subscribers, queue, SetToSeq(AllSubscribedPages),
                                  cur.id, h.fault = "event")
                ELSE refresh_pages_using(subscribers, queue,
                                         pages_using_template(template_name),
                                         1, cur.id, h.fault = "event")
     IN /\ block_meta_cache' = cache1
        /\ extends_map' = c.emap
        /\ IF r.raised
             THEN /\ queue' = broadcast_error(subscribers, r.queue,
                                              AllSubscribedPages, cur.id)
                  /\ h' = [h EXCEPT !.raised = TRUE]
             ELSE /\ queue' = r.queue
                  /\ h' = h
  /\ pc' = "returned"
  /\ UNCHANGED << content_cache, page_html >>
  /\ HandlerFrame

\* _handle_config_change and _handle_asset_change: no try block; what
\* push_full_refresh raises leaves handle_change and is printed by the
\* except clause of _consume_events.
HandleConfigOrAsset ==
  /\ pc = "h_dispatch"
  /\ cur.category \in {"config", "asset"}
  /\ LET r == refresh_each(subscribers, queue, SetToSeq(AllSubscribedPages),
                           cur.id, h.fault = "event")
     IN /\ queue' = r.queue
        /\ h' = [h EXCEPT !.raised = r.raised, !.escaped = r.raised]
  /\ IF cur.category = "config"
       THEN block_meta_cache' = invalidate_all_caches /\ extends_map' = NoMap
       ELSE UNCHANGED << block_meta_cache, extends_map >>
  /\ pc' = "returned"
  /\ UNCHANGED << content_cache, page_html >>
  /\ HandlerFrame

\* _handle_route_change: a message on stderr
HandleRoute ==
  /\ pc = "h_dispatch"
  /\ cur.category = "route"
  /\ pc' = "returned"
  /\ UNCHANGED << h, queue, PipelineVars >>
  /\ HandlerFrame

\* ------------------------------------------------------------------------
\* Direct use of the pipeline: a caller awaits handle_change(event) on the
\* event loop, as the tests do, and files change on disk in between.
\* ------------------------------------------------------------------------
\* The content edits of the model: every source for f1, one for f2, none
\* for f3.
EditsOf(f) ==
  CASE f = "f1" -> Sources \cup {"unreadable"}
    [] f = "f2" -> {"s2"}
    [] OTHER -> {}

EditFile(f, src) ==
  /\ pc = "none"
  /\ disk[f] # src
  /\ disk' = [disk EXCEPT ![f] = src]
  /\ UNCHANGED << subscribers, queue, kida_env, app_phase, next_id >>
  /\ UNCHANGED << PipelineVars, WatcherVars, ConsumerVars >>
  /\ UNCHANGED << stream, g, bc >>

DirectCall(parts) ==
  /\ pc = "none"
  /\ app_phase = "init"
  /\ next_id <= MaxCalls
  /\ categorize_change(parts) # "None"
  /\ cur' = ChangeEvent(next_id, parts, categorize_change(parts))
  /\ next_id' = next_id + 1
  /\ handled' = Append(handled, next_id)
  /\ \E fault \in FaultsOf(categorize_change(parts)) : h' = StartCall(fault)
  /\ pc' = "h_dispatch"
  /\ UNCHANGED << subscribers, queue, disk, kida_env, app_phase >>
  /\ UNCHANGED << PipelineVars, WatcherVars >>
  /\ g' = G0
  /\ UNCHANGED << stream, bc >>

DirectReturn ==
  /\ pc = "returned"
  /\ app_phase = "init"
  /\ pc' = "none"
  /\ cur' = NoEvent
  /\ h' = H0
  /\ UNCHANGED << handled, subscribers, queue, disk, kida_env, app_phase, next_id >>
  /\ UNCHANGED << PipelineVars, WatcherVars >>
  /\ UNCHANGED << stream, g, bc >>

Next ==
  \/ \E c \in Conns : SseConnect(c)
  \/ \E c \in Conns : SseDisconnect(c)
  \/ \E c \in Conns : ClientDrain(c)
  \/ Freeze
  \/ \E f \in Files : \E src \in EditsOf(f) : EditFile(f, src)
  \/ \E parts \in RawPaths : DirectCall(parts)
  \/ DirectReturn
  \/ ReadSource
  \/ ParseContent
  \/ UpdateCache
  \/ DiffDocs
  \/ PageLoop
  \/ Fallback
  \/ HandleTemplate
  \/ HandleConfigOrAsset
  \/ HandleRoute

Spec == Init /\ [][Next]_vars

\* The application as _start_watcher wires it, plus ContentWatcher.start.
\* The changes of a run: edits of f1, the config file, an unwatched file.
AppPaths ==
  { <<"content", "f1">>, <<"templates", "page.html">>, <<"purr.yaml">>,
    <<"routes", "r.py">>, <<"README.md">> }
AppEdits == {"s1", "s2"}
AppConns == {"c1"}

NextApp ==
  \/ \E c \in AppConns : SseConnect(c)
  \/ StartupHook
  \/ StopHook
  \/ WatcherStart
  \/ \E parts \in AppPaths :
       \E src \in (IF parts[1] = content_dir THEN AppEdits ELSE {"s1"}) :
         FsChange(parts, src)
  \/ WatchYield
  \/ WatchPut
  \/ ConsumerNext
  \/ ReadSource
  \/ ParseContent
  \/ UpdateCache
  \/ DiffDocs
  \/ PageLoop
  \/ Fallback
  \/ HandleTemplate
  \/ HandleConfigOrAsset
  \/ HandleRoute

SpecApp == Init /\ [][NextApp]_vars

\* The steps of a handle_change call, and the specification with the
\* fairness the schedulers give: the event loop runs the consumer task when
\* it can run, and the watcher thread runs.
HandleChangeStep ==
  \/ ReadSource \/ ParseContent \/ UpdateCache \/ DiffDocs \/ PageLoop
  \/ Fallback \/ HandleTemplate \/ HandleConfigOrAsset \/ HandleRoute

FairSpecApp ==
  /\ Init
  /\ [][NextApp]_vars
  /\ WF_vars(ConsumerNext)
  /\ WF_vars(HandleChangeStep)
  /\ WF_vars(WatchYield)
  /\ WF_vars(WatchPut)

\* ------------------------------------------------------------------------
\* Direct use of the dependency graph: the public methods of DependencyGraph
\* called between changes, as the tests do, next to template and config
\* changes handled by the pipeline.
\* ------------------------------------------------------------------------
GraphFrame ==
  /\ UNCHANGED << subscribers, queue, disk, kida_env, app_phase, next_id, stream, bc >>
  /\ UNCHANGED << content_cache, page_html >>
  /\ UNCHANGED << WatcherVars, ConsumerVars >>

QueryBlockDeps(template_name, analysis_raises) ==
  /\ pc = "none"
  /\ LET r == block_deps_for_template(block_meta_cache, kida_env,
                                      analysis_raises, template_name)
     IN /\ block_meta_cache' = r.cache
        /\ g' = [G0 EXCEPT !.op = "block_deps_for_template",
                           !.name = template_name,
                           !.env = kida_env,
                           !.cached = template_name \in DOMAIN block_meta_cache,
                           !.asked = template_name \notin DOMAIN block_meta_cache
                                     /\ kida_env,
                           !.raises = analysis_raises,
                           !.prior_deps =
                              IF template_name \in DOMAIN block_meta_cache
                                THEN block_meta_cache[template_name] ELSE <<>>,
                           !.shared = block_deps_returns_entry(r.cache, template_name),
                           !.deps = r.deps]
  /\ UNCHANGED extends_map
  /\ GraphFrame

QueryTemplatesExtending(template_name) ==
  /\ pc = "none"
  /\ LET r == templates_extending(extends_map, kida_env, template_name)
     IN /\ extends_map' = r.emap
        /\ g' = [G0 EXCEPT !.op = "templates_extending",
                           !.name = template_name,
                           !.env = kida_env,
                           !.cached = extends_map.built,
                           !.asked = ~extends_map.built /\ kida_env,
                           !.prior_children = extends_map.children[template_name],
                           !.shared = templates_extending_returns_entry,
                           !.children = r.children]
  /\ UNCHANGED block_meta_cache
  /\ GraphFrame

QueryIsCascade(parts) ==
  /\ pc = "none"
  /\ categorize_change(parts) # "None"
  /\ LET event == ChangeEvent(0, parts, categorize_change(parts))
         r == is_cascade_change(extends_map, kida_env, event)
     IN /\ extends_map' = r.emap
        /\ g' = [G0 EXCEPT !.op = "is_cascade_change",
                           !.name = PathName(parts),
                           !.category = event.category,
                           !.env = kida_env,
                           !.cached = extends_map.built,
                           !.cascade = r.cascade]
  /\ UNCHANGED block_meta_cache
  /\ GraphFrame

\* invalidate_template_cache called directly.
\* Variant that also drops the entries of the templates extending the name.
InvalidateTemplate_with_children(template_name) ==
  /\ pc = "none"
  /\ block_meta_cache' =
       [t \in DOMAIN block_meta_cache
               \ ({template_name} \cup { c \in Templates : EngineExtends(c) = template_name })
          |-> block_meta_cache[t]]
  /\ extends_map' = NoMap
  /\ g' = [G0 EXCEPT !.op = "invalidate_template_cache", !.name = template_name,
                     !.cached = template_name \in DOMAIN block_meta_cache,
                     !.env = kida_env]
  /\ GraphFrame

InvalidateTemplate(template_name) ==
  /\ pc = "none"
  /\ block_meta_cache' = invalidate_template_cache(block_meta_cache, template_name)
  /\ extends_map' = NoMap
  /\ g' = [G0 EXCEPT !.op = "invalidate_template_cache", !.name = template_name,
                     !.cached = template_name \in DOMAIN block_meta_cache,
                     !.env = kida_env]
  /\ GraphFrame

InvalidateAll ==
  /\ pc = "none"
  /\ block_meta_cache' = invalidate_all_caches
  /\ extends_map' = NoMap
  /\ g' = [G0 EXCEPT !.op = "invalidate_all_caches", !.env = kida_env]
  /\ GraphFrame

GraphPaths ==
  { <<"templates", "page.html">>, <<"templates", "base.html">>, <<"purr.yaml">> }

\* The caller of block_deps_for_template or templates_extending empties the
\* collection it was given (deps.clear(), children.clear()).  When that
\* collection is the graph's own container, the container is emptied.
CallerMutates ==
  /\ pc = "none"
  /\ g.op \in {"block_deps_for_template", "templates_extending"}
  /\ IF g.op = "block_deps_for_template" THEN g.deps # <<>> ELSE g.children # {}
  /\ block_meta_cache' =
       IF g.op = "block_deps_for_template" /\ g.shared
         THEN [block_meta_cache EXCEPT ![g.name] = <<>>]
         ELSE block_meta_cache
  /\ extends_map' =
       IF g.op = "templates_extending" /\ g.shared
         THEN [extends_map EXCEPT !.children[g.name] = {}]
         ELSE extends_map
  /\ g' = [g EXCEPT !.op = "caller_mutates", !.accessor = g.op]
  /\ GraphFrame

NextGraph ==
  \/ Freeze
  \/ \E t \in Templates : \E analysis_raises \in BOOLEAN :
       QueryBlockDeps(t, analysis_raises)
  \/ \E t \in Templates : QueryTemplatesExtending(t)
  \/ \E parts \in RawPaths : QueryIsCascade(parts)
  \/ \E t \in Templates : InvalidateTemplate(t)
  \/ InvalidateAll
  \/ CallerMutates
  \/ \E parts \in GraphPaths : DirectCall(parts)
  \/ HandleTemplate
  \/ HandleConfigOrAsset
  \/ DirectReturn

SpecGraph == Init /\ [][NextGraph]_vars

\* ------------------------------------------------------------------------
\* The SSE endpoint by itself: connections in every stage of their life,
\* while config and asset changes push refreshes to them.
\* ------------------------------------------------------------------------
SsePaths == { <<"purr.yaml">>, <<"static", "style.css">> }

NextSse ==
  \/ \E c \in Conns : SseHandler(c)
  \/ \E c \in Conns : StreamStart(c)
  \/ \E c \in Conns : ClientAbort(c)
  \/ \E c \in Conns : SseDisconnect(c)
  \/ \E c \in Conns : ClientDrain(c)
  \/ \E parts \in SsePaths : DirectCall(parts)
  \/ HandleConfigOrAsset
  \/ DirectReturn

SpecSse == Init /\ [][NextSse]_vars

\* The server iterates a stream it has been handed; clients come and go as
\* they please.
FairSpecSse ==
  /\ Init
  /\ [][NextSse]_vars
  /\ \A c \in Conns : WF_vars(StreamStart(c))
  /\ WF_vars(HandleConfigOrAsset)
  /\ WF_vars(DirectReturn)

\* ------------------------------------------------------------------------
\* reactive/broadcaster.py: the methods of Broadcaster, statement by
\* statement, called from several threads.  self._subscribers is a
\* defaultdict(set): reading a missing key inserts an empty set.
\* ------------------------------------------------------------------------
LockFrame ==
  /\ UNCHANGED << disk, kida_env, app_phase, next_id, stream, g >>
  /\ UNCHANGED << PipelineVars, WatcherVars, ConsumerVars >>

defaultdict_get(subs, permalink) ==
  IF permalink \in DOMAIN subs THEN subs
  ELSE [p \in DOMAIN subs \cup {permalink} |->
          IF p = permalink THEN {} ELSE subs[p]]

\* Variant of the last statement of unsubscribe that deletes nothing.
delete_if_empty_keep(subs, permalink) == defaultdict_get(subs, permalink)

delete_if_empty(subs, permalink) ==
  LET s1 == defaultdict_get(subs, permalink)
  IN IF s1[permalink] = {}
       THEN [p \in DOMAIN s1 \ {permalink} |-> s1[p]]
       ELSE s1

\* "with self._lock:" of subscribe or unsubscribe
MutatorAcquire(t, op, permalink) ==
  /\ pc = "none"
  /\ bc.tpc[t] = "idle"
  /\ lock_free(bc.lock)
  /\ bc' = [bc EXCEPT !.lock = t, !.tpc[t] = op, !.page[t] = permalink,
                      !.pre = subscribers]
  /\ UNCHANGED << subscribers, queue >>
  /\ LockFrame

\* subscribe: self._subscribers[permalink]
SubscribeGet(t) ==
  /\ bc.tpc[t] = "subscribe"
  /\ subscribers' = defaultdict_get(subscribers, bc.page[t])
  /\ bc' = [bc EXCEPT !.tpc[t] = "subscribe_add"]
  /\ UNCHANGED queue
  /\ LockFrame

\* subscribe: .add(conn)
SubscribeAdd(t) ==
  /\ bc.tpc[t] = "subscribe_add"
  /\ subscribers' = [subscribers EXCEPT ![bc.page[t]] = @ \cup {ThreadConn(t)}]
  /\ bc' = [bc EXCEPT !.tpc[t] = "subscribed"]
  /\ UNCHANGED queue
  /\ LockFrame

\* unsubscribe: self._subscribers[permalink].discard(conn)
UnsubscribeDiscard(t) ==
  /\ bc.tpc[t] = "unsubscribe"
  /\ subscribers' =
       [defaultdict_get(subscribers, bc.page[t])
          EXCEPT ![bc.page[t]] = @ \ {ThreadConn(t)}]
  /\ bc' = [bc EXCEPT !.tpc[t] = "unsubscribe_check"]
  /\ UNCHANGED queue
  /\ LockFrame

\* unsubscribe: if not self._subscribers[permalink]: del ...
UnsubscribeCheck(t) ==
  /\ bc.tpc[t] = "unsubscribe_check"
  /\ subscribers' = delete_if_empty(subscribers, bc.page[t])
  /\ bc' = [bc EXCEPT !.tpc[t] = "unsubscribed"]
  /\ UNCHANGED queue
  /\ LockFrame

\* the end of a "with self._lock:" block
Release(t) ==
  /\ bc.tpc[t] \in {"subscribed", "unsubscribed", "pages_taken"}
  /\ bc' = [bc EXCEPT !.lock = IF @ = t THEN "free" ELSE @, !.tpc[t] = "idle"]
  /\ UNCHANGED << subscribers, queue >>
  /\ LockFrame

\* get_subscribed_pages: "with self._lock:"
PagesAcquire ==
  /\ pc = "none"
  /\ bc.tpc["loop"] = "idle"
  /\ lock_free(bc.lock)
  /\ bc' = [bc EXCEPT !.lock = "loop", !.tpc["loop"] = "pages"]
  /\ UNCHANGED << subscribers, queue >>
  /\ LockFrame

\* get_subscribed_pages: frozenset(self._subscribers.keys())
PagesSnapshot ==
  /\ bc.tpc["loop"] = "pages"
  /\ bc' = [bc EXCEPT !.tpc["loop"] = "pages_taken",
                      !.pages = get_subscribed_pages(subscribers),
                      !.pages_ok = \A p \in get_subscribed_pages(subscribers) :
                                     subscribers[p] # {}]
  /\ UNCHANGED << subscribers, queue >>
  /\ LockFrame

\* push_full_refresh -> get_subscribers: "with self._lock:"
PushAcquire(permalink) ==
  /\ pc = "none"
  /\ bc.tpc["loop"] = "idle"
  /\ bc.pushes < MaxPushes
  /\ lock_free(bc.lock)
  /\ bc' = [bc EXCEPT !.lock = "loop", !.tpc["loop"] = "snapshot",
                      !.page["loop"] = permalink, !.pushes = @ + 1]
  /\ UNCHANGED << subscribers, queue >>
  /\ LockFrame

\* get_subscribers: frozenset(self._subscribers.get(permalink, set())), and
\* the lock is released on return.
PushSnapshot ==
  /\ bc.tpc["loop"] = "snapshot"
  /\ LET now == get_subscribers(subscribers, bc.page["loop"])
     IN bc' = [bc EXCEPT !.lock = IF @ = "loop" THEN "free" ELSE @,
                         !.tpc["loop"] = "iterate",
                         !.snap = frozenset(now), !.at_snap = now,
                         !.todo = now, !.sent = {}, !.count = 0]
  /\ UNCHANGED << subscribers, queue >>
  /\ LockFrame

\* push_full_refresh: one iteration of "for conn in subscribers".  A set
\* that changed while it is iterated makes the iteration raise.
PushIterate(c) ==
  /\ bc.tpc["loop"] = "iterate"
  /\ c \in bc.todo
  /\ IF bc.snap.live /\ get_subscribers(subscribers, bc.page["loop"]) # bc.snap.val
       THEN /\ bc' = [bc EXCEPT !.error = TRUE, !.tpc["loop"] = "idle"]
            /\ UNCHANGED queue
       ELSE /\ queue' = [queue EXCEPT
                           ![c] = Append(@, RefreshEvent(bc.page["loop"], 0))]
            /\ bc' = [bc EXCEPT !.todo = @ \ {c}, !.sent = @ \cup {c},
                                !.count = @ + 1]
  /\ UNCHANGED subscribers
  /\ LockFrame

\* push_full_refresh: return count
PushReturn ==
  /\ bc.tpc["loop"] = "iterate"
  /\ bc.todo = {}
  /\ bc' = [bc EXCEPT !.tpc["loop"] = "idle"]
  /\ UNCHANGED << subscribers, queue >>
  /\ LockFrame

NextLock ==
  \/ \E t \in Mutators : \E op \in {"subscribe", "unsubscribe"} :
       \E permalink \in LockPages : MutatorAcquire(t, op, permalink)
  \/ \E t \in Mutators : SubscribeGet(t)
  \/ \E t \in Mutators : SubscribeAdd(t)
  \/ \E t \in Mutators : UnsubscribeDiscard(t)
  \/ \E t \in Mutators : UnsubscribeCheck(t)
  \/ \E t \in Threads : Release(t)
  \/ PagesAcquire
  \/ PagesSnapshot
  \/ \E permalink \in LockPages : PushAcquire(permalink)
  \/ PushSnapshot
  \/ \E c \in Conns : PushIterate(c)
  \/ PushReturn

SpecLock == Init /\ [][NextLock]_vars

\* ------------------------------------------------------------------------
\* Broadcaster.push_updates and push_full_refresh called directly, with
\* connections being subscribed in between and nobody reading the queues.
\* Neither method awaits anything: each call is one step of the loop.
\* ------------------------------------------------------------------------
PushableUpdates ==
  { BlockUpdate("/a", "page.html", "content", {"content"}),
    BlockUpdate("/b", "alt.html", "footer", {"site"}) }

UpdateTuples ==
  UNION { [1..n -> PushableUpdates] : n \in 0..MaxUpdates }

PushFrame ==
  /\ next_id' = next_id + 1
  /\ UNCHANGED << subscribers, disk, kida_env, app_phase, stream, bc >>
  /\ UNCHANGED << PipelineVars, WatcherVars, ConsumerVars >>

\* Broadcaster.subscribe called directly, for any page.
SubscribeCall(c, permalink) ==
  /\ LoopFree
  /\ c \notin get_subscribers(subscribers, permalink)
  /\ subscribers' = subscribe(subscribers, permalink, c)
  /\ UNCHANGED << queue, disk, kida_env, app_phase, next_id, stream, g, bc >>
  /\ UNCHANGED << PipelineVars, WatcherVars, ConsumerVars >>

PushUpdatesCall(updates) ==
  /\ LoopFree
  /\ next_id <= MaxCalls
  /\ LET r == push_updates(subscribers, queue, updates, 0)
     IN /\ queue' = r.queue
        /\ g' = [G0 EXCEPT !.op = "push_updates", !.updates = updates,
                           !.count = r.count, !.pre_subs = subscribers,
                           !.pre_queue = queue, !.post_queue = r.queue]
  /\ PushFrame

PushFullRefreshCall(permalink) ==
  /\ LoopFree
  /\ next_id <= MaxCalls
  /\ LET r == push_full_refresh(subscribers, queue, permalink, 0)
     IN /\ queue' = r.queue
        /\ g' = [G0 EXCEPT !.op = "push_full_refresh", !.page = permalink,
                           !.count = r.count, !.pre_subs = subscribers,
                           !.pre_queue = queue, !.post_queue = r.queue]
  /\ PushFrame

NextPush ==
  \/ \E c \in Conns : \E permalink \in LockPages : SubscribeCall(c, permalink)
  \/ \E updates \in UpdateTuples : PushUpdatesCall(updates)
  \/ \E permalink \in Permalinks : PushFullRefreshCall(permalink)

SpecPush == Init /\ [][NextPush]_vars

\* ------------------------------------------------------------------------
\* ReactiveMapper.map_changes called directly, once: changes of known and unknown
\* node types, added, removed and modified, on block metadata of several
\* shapes (a dict: block names are keys, so no name occurs twice).
\* ------------------------------------------------------------------------
NodeCustom == [type |-> "Custom", val |-> "x"]

MappableChanges ==
  { ASTChange("modified", <<0>>, NodeH, NodeH2),
    ASTChange("added", <<1>>, NoNode, NodeP),
    ASTChange("removed", <<0>>, NodeH, NoNode),
    ASTChange("added", <<2>>, NoNode, NodeCustom),
    ASTChange("modified", <<3>>, NoNode, NoNode) }

ChangeTuples == UNION { [1..n -> MappableChanges] : n \in 0..MaxDiffLen }

MetadataChoices ==
  { << >>,
    EngineBlockMetadata("page.html").meta,
    EngineBlockMetadata("alt.html").meta,
    << [block |-> "head", deps |-> {"page", "site"}],
       [block |-> "content", deps |-> {"content", "toc"}],
       [block |-> "static", deps |-> {}] >> }

MapChangesCall(changes, template_name, block_metadata, permalink) ==
  /\ pc = "none"
  /\ g.op = "none"
  /\ g' = [G0 EXCEPT !.op = "map_changes", !.changes = changes,
                     !.template = template_name, !.meta = block_metadata,
                     !.page = permalink,
                     !.result = map_changes(changes, template_name,
                                            block_metadata, permalink)]
  /\ UNCHANGED << subscribers, queue, disk, kida_env, app_phase, next_id,
                  stream, bc >>
  /\ UNCHANGED << PipelineVars, WatcherVars, ConsumerVars >>

NextMapper ==
  \E changes \in ChangeTuples : \E block_metadata \in MetadataChoices :
    \E template_name \in {"page.html", "alt.html"} : \E permalink \in LockPages :
      MapChangesCall(changes, template_name, block_metadata, permalink)

SpecMapper == Init /\ [][NextMapper]_vars

\* ------------------------------------------------------------------------
\* diff_documents called directly, once, on two documents made of headings
\* and of lists; a List node carries nested block children (its items).
\* ------------------------------------------------------------------------
ItemX == [type |-> "ListItem", val |-> "x"]
ItemY == [type |-> "ListItem", val |-> "y"]
ListA == [type |-> "List", val |-> "", children |-> << ItemX >>]
ListB == [type |-> "List", val |-> "", children |-> << ItemX, ItemY >>]

DiffNodes == { NodeH, NodeH2, ListA, ListB }

Documents == UNION { [1..n -> DiffNodes] : n \in 0..MaxDocLen }

DiffCall(old, new) ==
  /\ pc = "none"
  /\ g.op = "none"
  /\ g' = [G0 EXCEPT !.op = "diff_documents", !.old = old, !.new = new,
                     !.result = diff_documents(old, new)]
  /\ UNCHANGED << subscribers, queue, disk, kida_env, app_phase, next_id,
                  stream, bc >>
  /\ UNCHANGED << PipelineVars, WatcherVars, ConsumerVars >>

NextDiff == \E old \in Documents : \E new \in Documents : DiffCall(old, new)

SpecDiff == Init /\ [][NextDiff]_vars

\* ------------------------------------------------------------------------
\* _compute_edit_region called directly, once, on two strings over a
\* two-letter alphabet.
\* ------------------------------------------------------------------------
Chars == {"a", "b"}
Strings == UNION { [1..n -> Chars] : n \in 0..MaxStrLen }

EditRegionCall(old, new) ==
  /\ pc = "none"
  /\ g.op = "none"
  /\ g' = [G0 EXCEPT !.op = "_compute_edit_region", !.old = old, !.new = new,
                     !.result = compute_edit_region(old, new)]
  /\ UNCHANGED << subscribers, queue, disk, kida_env, app_phase, next_id,
                  stream, bc >>
  /\ UNCHANGED << PipelineVars, WatcherVars, ConsumerVars >>

NextEdit == \E old \in Strings : \E new \in Strings : EditRegionCall(old, new)

SpecEdit == Init /\ [][NextEdit]_vars

\* ------------------------------------------------------------------------
\* One iteration of _watch_loop's inner loop on one raw change, for absolute
\* paths and several configurations.
\* ------------------------------------------------------------------------
PathNames ==
  { "site", "content", "templates", "static", "routes",
    "purr.yaml", "purr.yml", "purr.toml", "README.md" }

AbsPaths == UNION { [1..n -> PathNames] : n \in 0..MaxPathLen }

\* PurrConfig: the defaults under /site; two directory settings sharing a
\* name; a content directory named like a config file; a deeper root.
Configs ==
  { [root |-> <<"site">>, content_dir |-> content_dir,
     templates_dir |-> templates_dir, static_dir |-> static_dir,
     routes_dir |-> routes_dir],
    [root |-> <<"site">>, content_dir |-> "content",
     templates_dir |-> "content", static_dir |-> "static",
     routes_dir |-> "static"],
    [root |-> <<"site">>, content_dir |-> "purr.yaml",
     templates_dir |-> "templates", static_dir |-> "static",
     routes_dir |-> "routes"],
    [root |-> <<"site", "site">>, content_dir |-> "content",
     templates_dir |-> "templates", static_dir |-> "static",
     routes_dir |-> "routes"] }

WatchLoopBody(path, config) ==
  /\ pc = "none"
  /\ g.op = "none"
  /\ LET category == categorize_change_config(path, config)
     IN /\ wqueue' = IF category = "None" THEN wqueue
                     ELSE put_nowait(wqueue, ChangeEvent(0, path, category))
        /\ g' = [G0 EXCEPT !.op = "_watch_loop", !.path = path,
                           !.config = config, !.category = category]
  /\ UNCHANGED << leftover, wthread, stop_event, fs_pending, batch, reported, fs_log >>
  /\ UNCHANGED << subscribers, queue, disk, kida_env, app_phase, next_id,
                  stream, bc >>
  /\ UNCHANGED << PipelineVars, ConsumerVars >>

NextCategorize ==
  \E path \in AbsPaths : \E config \in Configs : WatchLoopBody(path, config)

SpecCategorize == Init /\ [][NextCategorize]_vars

\* ------------------------------------------------------------------------
\* Direct use of the pipeline where the caller may await handle_change a
\* second time on the event it has just handled, before anything else runs
\* and with the file as it was.
\* ------------------------------------------------------------------------
RepeatCall ==
  /\ pc = "returned"
  /\ app_phase = "init"
  /\ next_id <= MaxCalls
  /\ cur.category = "content"
  /\ cur' = ChangeEvent(next_id, cur.path, cur.category)
  /\ next_id' = next_id + 1
  /\ handled' = Append(handled, next_id)
  /\ \E fault \in FaultsOf(cur.category) :
       h' = [StartCall(fault) EXCEPT !.repeat = TRUE]
  /\ pc' = "h_dispatch"
  /\ UNCHANGED << subscribers, queue, disk, kida_env, app_phase >>
  /\ UNCHANGED << PipelineVars, WatcherVars >>
  /\ g' = G0
  /\ UNCHANGED << stream, bc >>

NextRepeat == Next \/ RepeatCall

SpecRepeat == Init /\ [][NextRepeat]_vars

\* ------------------------------------------------------------------------
\* The Broadcaster by itself: connection objects are built, subscribed,
\* unsubscribed, looked up and pushed to, in any order, by direct calls on
\* the loop.
\* ------------------------------------------------------------------------
ConnObjects == Conns \cup {"c1b"}

SubsFrame ==
  /\ UNCHANGED << disk, kida_env, app_phase, stream, bc >>
  /\ UNCHANGED << PipelineVars, WatcherVars, ConsumerVars >>

\* SSEConnection(client_id, permalink): default_factory builds its queue.
NewConnection(c) ==
  /\ pc = "none"
  /\ c \notin DOMAIN queue
  /\ queue' = [x \in DOMAIN queue \cup {c} |-> IF x = c THEN <<>> ELSE queue[x]]
  /\ g' = [G0 EXCEPT !.op = "SSEConnection", !.name = c,
                     !.subscriptions = g.subscriptions, !.twice = g.twice]
  /\ UNCHANGED << subscribers, next_id >>
  /\ SubsFrame

SubsSubscribe(c, permalink) ==
  /\ pc = "none"
  /\ c \in DOMAIN queue
  /\ subscribers' = subscribe(subscribers, permalink, c)
  /\ g' = [G0 EXCEPT !.op = "subscribe", !.name = c, !.page = permalink,
                     !.pre_subs = [p \in DOMAIN subscribers \cap { permalink }
                                     |-> subscribers[p]],
                     !.subscriptions = g.subscriptions
                        \cup { << permalink, ConnClientId(c), ConnPermalink(c) >> },
                     !.twice = IF \E x \in get_subscribers(subscribers, permalink) :
                                    /\ x # c
                                    /\ ConnClientId(x) = ConnClientId(c)
                                    /\ ConnPermalink(x) = ConnPermalink(c)
                                 THEN g.twice \cup { permalink }
                                 ELSE g.twice]
  /\ UNCHANGED << queue, next_id >>
  /\ SubsFrame

SubsUnsubscribe(c, permalink) ==
  /\ pc = "none"
  /\ c \in DOMAIN queue
  /\ subscribers' = unsubscribe(subscribers, permalink, c)
  /\ g' = [G0 EXCEPT !.op = "unsubscribe",
                     !.subscriptions = g.subscriptions
                        \ { << permalink, ConnClientId(c), ConnPermalink(c) >> },
                     !.twice = IF ConnClientId(c) = "c1"
                                 THEN g.twice \ { permalink } ELSE g.twice]
  /\ UNCHANGED << queue, next_id >>
  /\ SubsFrame

SubsGetSubscribers(permalink) ==
  /\ pc = "none"
  /\ subscribers' = dict_after_get(subscribers, permalink)
  /\ g' = [G0 EXCEPT !.op = "get_subscribers", !.page = permalink,
                     !.pre_subs = subscribers,
                     !.result = frozenset(get_subscribers(subscribers, permalink)),
                     !.subscriptions = g.subscriptions, !.twice = g.twice]
  /\ UNCHANGED << queue, next_id >>
  /\ SubsFrame

SubsPush(permalink) ==
  /\ pc = "none"
  /\ next_id <= MaxPushes
  /\ next_id' = next_id + 1
  /\ LET r == push_full_refresh(subscribers, queue, permalink, 0)
     IN /\ queue' = r.queue
        /\ g' = [G0 EXCEPT !.op = "push_full_refresh", !.page = permalink,
                           !.count = r.count, !.pre_subs = subscribers,
                           !.pre_queue = queue, !.post_queue = r.queue,
                           !.subscriptions = g.subscriptions,
                           !.twice = g.twice]
  /\ subscribers' = dict_after_get(subscribers, permalink)
  /\ SubsFrame

NextSubs ==
  \/ \E c \in ConnObjects : NewConnection(c)
  \/ \E c \in ConnObjects : \E permalink \in LockPages : SubsSubscribe(c, permalink)
  \/ \E c \in ConnObjects : \E permalink \in LockPages : SubsUnsubscribe(c, permalink)
  \/ \E permalink \in LockPages : SubsGetSubscribers(permalink)
  \/ \E permalink \in LockPages : SubsPush(permalink)

SpecSubs == Init /\ [][NextSubs]_vars

\* ------------------------------------------------------------------------
\* ContentWatcher by itself: start and stop called in any order while files
\* change.  stop sets the event, joins the thread for at most five seconds
\* and then forgets it, whether or not it has ended; a thread that has not
\* ended lives on until it finds the event set at its next look.  (What a
\* forgotten thread puts on the queue is not modelled; it is counted.)
\* ------------------------------------------------------------------------
WatchFrame ==
  /\ UNCHANGED << subscribers, queue, disk, kida_env, app_phase, next_id >>
  /\ UNCHANGED << PipelineVars, ConsumerVars >>
  /\ UNCHANGED << stream, g, bc >>

\* stop(): joined says whether the thread ended within the timeout; it ends
\* only after the batch it is working on.
WatcherStop(joined) ==
  /\ LoopFree
  /\ stop_event' = TRUE
  /\ IF ~is_running
       THEN /\ joined
            /\ UNCHANGED << wthread, leftover, fs_pending, batch >>
       ELSE /\ wthread' = "none"
            /\ IF joined
                 THEN /\ batch = <<>>
                      /\ UNCHANGED << leftover, batch >>
                 ELSE /\ leftover < MaxLeftover
                      /\ leftover' = leftover + 1
                      /\ batch' = <<>>
            /\ fs_pending' = <<>>
  /\ UNCHANGED << wqueue, reported, fs_log >>
  /\ WatchFrame

\* A forgotten thread finds the event set and returns from _watch_loop.
LeftoverExit ==
  /\ leftover > 0
  /\ stop_event
  /\ leftover' = leftover - 1
  /\ UNCHANGED << wthread, stop_event, wqueue, fs_pending, batch, reported, fs_log >>
  /\ WatchFrame

NextWatch ==
  \/ WatcherStart
  \/ \E joined \in BOOLEAN : WatcherStop(joined)
  \/ LeftoverExit
  \/ \E parts \in AppPaths :
       \E src \in (IF parts[1] = content_dir THEN AppEdits ELSE {"s1"}) :
         FsChange(parts, src)
  \/ WatchYield
  \/ WatchPut

SpecWatch == Init /\ [][NextWatch]_vars

\* ------------------------------------------------------------------------
\* Properties
\* ------------------------------------------------------------------------
\* handle_change has returned and the caller has not yet gone on.
Returned == pc = "returned"

\* What the call that just returned put on a connection's queue.
NewMsgs(c) == SubSeq(queue[c], Len(h.pre_queue[c]) + 1, Len(queue[c]))

CountIn(sq, Test(_)) == Cardinality({ k \in 1..Len(sq) : Test(sq[k]) })

SubscribersOf(permalink) == get_subscribers(subscribers, permalink)

AllSubscribed == UNION { subscribers[p] : p \in DOMAIN subscribers }

\* Pages of site.pages backed by a file, with a permalink.
BackedPages(f) ==
  { i \in PageIdx : Pages[i].source_path = f /\ get_permalink(Pages[i]) # "" }

ContentReturned == Returned /\ cur.category = "content"

NonEmptyDiff == ContentReturned /\ h.diffed /\ h.changes # <<>>

\* C1: after a content change that is read and parsed into a document that
\* differs from the cached one, every subscriber of every page backed by
\* the file has at least one message of this change.
C1_EverySubscriberNotified ==
  ( /\ ContentReturned
    /\ h.parse_ok
    /\ h.pre_cache[EventFile(cur)].present
    /\ h.pre_cache[EventFile(cur)].doc # h.new_doc )
  => \A i \in BackedPages(EventFile(cur)) :
       \A c \in SubscribersOf(get_permalink(Pages[i])) :
         \E k \in 1..Len(NewMsgs(c)) : NewMsgs(c)[k].chg = cur.id

\* C2: with a non-empty diff and no collaborator raising, every page backed
\* by the file whose mapping is empty gets exactly one purr:refresh per
\* subscriber, whatever the other pages' mappings, and nobody gets purr:error.
C2_RefreshForEveryUnmappedPage ==
  (NonEmptyDiff /\ h.fault = "none")
  => /\ \A i \in h.mapped :
          h.updates[i] = <<>> =>
            \A c \in SubscribersOf(get_permalink(Pages[i])) :
              LET IsRefresh(m) == m.kind = "purr:refresh"
                                  /\ m.page = get_permalink(Pages[i])
              IN CountIn(NewMsgs(c), IsRefresh) = 1
     /\ \A c \in Conns :
          LET IsError(m) == m.kind = "purr:error"
          IN CountIn(NewMsgs(c), IsError) = 0

\* C3: with a non-empty diff, a page with at least one BlockUpdate has one
\* fragment per BlockUpdate, in order, on each of its subscribers, and no
\* purr:refresh for that page.
C3_OneFragmentPerUpdate ==
  NonEmptyDiff
  => \A i \in h.mapped :
       h.updates[i] # <<>> =>
         \A c \in SubscribersOf(get_permalink(Pages[i])) :
           LET IsFragment(m) == m.kind = "fragment"
                                /\ m.page = get_permalink(Pages[i])
               IsRefresh(m) == m.kind = "purr:refresh"
                               /\ m.page = get_permalink(Pages[i])
           IN /\ SelectSeq(NewMsgs(c), IsFragment)
                   = [k \in 1..Len(h.updates[i]) |-> Fragment(h.updates[i][k], cur.id)]
              /\ CountIn(NewMsgs(c), IsRefresh) = 0

C3_Witness ==
  /\ NonEmptyDiff
  /\ \E i \in h.mapped :
       /\ Len(h.updates[i]) >= 2
       /\ SubscribersOf(get_permalink(Pages[i])) # {}

\* C4: a message pushed for page P is only in queues of connections
\* currently subscribed under P: a connection subscribed under another page
\* only holds no message for P.
C4_Isolation ==
  \A c \in Conns : \A k \in 1..Len(queue[c]) :
    queue[c][k].kind # "purr:error" =>
      /\ c \in SubscribersOf(queue[c][k].page)
      /\ \A q \in DOMAIN subscribers :
           c \in subscribers[q] => q = queue[c][k].page

C4_Witness ==
  \E c, d \in Conns :
    /\ c # d
    /\ c \in AllSubscribed /\ d \in AllSubscribed
    /\ \E k \in 1..Len(queue[c]) : queue[c][k].kind = "fragment"
    /\ \A k \in 1..Len(queue[d]) : queue[d][k].page # ConnPermalink(c)

\* C5: when handling a change of any category raises, every connection
\* subscribed to any page gets one purr:error of that change.
C5_ErrorReachesEveryone ==
  (Returned /\ h.raised)
  => \A c \in AllSubscribed :
       LET IsError(m) == m.kind = "purr:error" /\ m.chg = cur.id
       IN CountIn(NewMsgs(c), IsError) = 1

\* C6: once the startup hook has run, every categorised filesystem change
\* is eventually passed to handle_change (until shutdown), and never twice.
C6_EveryChangeHandled ==
  /\ \A id \in 1..MaxChanges :
       [](id \in fs_log =>
            <>((\E k \in 1..Len(handled) : handled[k] = id) \/ app_phase = "down"))
  /\ [](\A j, k \in 1..Len(handled) : j # k => handled[j] # handled[k])

\* C7: when the read fails or the parser raises, the cache entry of the
\* path, the pages' HTML and every queue are as before the call.
C7_FailedReadOrParseIsNoOp ==
  (ContentReturned /\ (~h.read_ok \/ ~Parse(h.new_source).ok))
  => /\ content_cache[EventFile(cur)] = h.pre_cache[EventFile(cur)]
     /\ page_html = h.pre_html
     /\ queue = h.pre_queue

C7_Witness ==
  /\ ContentReturned
  /\ h.read_ok
  /\ ~Parse(h.new_source).ok
  /\ content_cache[EventFile(cur)].present
  /\ AllSubscribed # {}

IsPrefix(a, b) == Len(a) <= Len(b) /\ \A k \in 1..Len(a) : a[k] = b[k]

CategorisedIds(sq) ==
  LET Watched(raw) == categorize_change(raw.path) # "None"
      kept == SelectSeq(sq, Watched)
  IN [k \in 1..Len(kept) |-> kept[k].id]

PosIn(sq, x) == CHOOSE k \in 1..Len(sq) : sq[k] = x

C9_NoPartialChangeOnCancel ==
  pc = "cancelled"
  => \/ h.cancelled_at \in {"ready", "waiting", "returned"}
     \/ content_cache = h.pre_cache

\* A change is queued for the loop when the task is cancelled, after an
\* earlier change that replaced the cache entry and pushed its messages.
C9_Witness ==
  /\ pc = "cancelled"
  /\ wqueue # <<>>
  /\ Len(handled) >= 1
  /\ content_cache["f1"].source = "s2"
  /\ \E c \in Conns : queue[c] # <<>>

\* C10: the watcher runs exactly between the two lifecycle hooks.
C10_RunningBetweenHooks ==
  /\ app_phase = "up" => is_running
  /\ app_phase = "down" => ~is_running

\* Messages of one kind (for one page, if given) among those the returned
\* call enqueued on a connection.
Refreshes(c) ==
  LET IsRefresh(m) == m.kind = "purr:refresh" IN CountIn(NewMsgs(c), IsRefresh)

Errors(c) ==
  LET IsError(m) == m.kind = "purr:error" IN CountIn(NewMsgs(c), IsError)

\* The permalinks a template change has to refresh: every subscribed page
\* on a cascade, else the pages whose source path uses the template.  The
\* extends map has just been dropped when is_cascade_change is asked.
TemplateTargets ==
  IF is_cascade_change(NoMap, kida_env, cur).cascade
    THEN get_subscribed_pages(subscribers)
    ELSE { get_permalink(Pages[i]) : i \in { j \in PageIdx :
             Pages[j].source_path \in pages_using_template(PathName(cur.path)) } }

\* C11: after a template change (with the app frozen and no collaborator
\* raising) each subscriber of a targeted page has one purr:refresh, the
\* subscribers of other pages have none, and nobody has a purr:error.
C11_TemplateChangeRefreshesTargets ==
  (Returned /\ cur.category = "template" /\ h.fault = "none" /\ kida_env)
  => \A p \in DOMAIN subscribers : \A c \in subscribers[p] :
       /\ Refreshes(c) = IF p \in TemplateTargets THEN 1 ELSE 0
       /\ Errors(c) = 0

\* C12: a config change or an asset change (no collaborator raising) puts
\* exactly one purr:refresh, and nothing else, on every subscribed
\* connection; without subscribers it enqueues nothing and raises nothing.
C12_ConfigAssetRefreshesEveryone ==
  (Returned /\ cur.category \in {"config", "asset"})
  => /\ h.fault = "none" =>
          \A c \in Conns :
            IF c \in AllSubscribed
              THEN Refreshes(c) = 1 /\ Len(NewMsgs(c)) = 1
              ELSE NewMsgs(c) = <<>>
     /\ AllSubscribed = {} => (~h.raised /\ queue = h.pre_queue)

C12_Witness ==
  /\ Returned
  /\ cur.category = "asset"
  /\ h.fault = "none"
  /\ Cardinality(AllSubscribed) = 2
  /\ \A c \in AllSubscribed : Refreshes(c) = 1

\* The templates that extend a template, as the engine knows them.
EngineChildren(template_name) ==
  { t \in Templates : EngineExtends(t) = template_name }

\* C13: is_cascade_change answers true for every config event and, with the
\* engine available, for every template event whose template is extended by
\* a known template, whatever was asked or invalidated before.
C13_CascadeOverApproximates ==
  g.op = "is_cascade_change"
  => /\ g.category = "config" => g.cascade
     /\ ( /\ g.category = "template"
          /\ g.env
          /\ EngineChildren(g.name) # {} ) => g.cascade

\* C14: block_deps_for_template does not store what it returns while the
\* engine is unavailable, and a call made while the engine works returns the
\* engine's dependencies, even after a call whose analysis failed.
C14_FailedAnalysisIsRetried ==
  g.op = "block_deps_for_template"
  => /\ (~g.env /\ ~g.cached)
          => (g.deps = <<>> /\ g.name \notin DOMAIN block_meta_cache)
     /\ (g.env /\ ~g.raises /\ EngineBlockMetadata(g.name).ok)
          => g.deps = EngineBlockMetadata(g.name).meta

\* C15: a cached block-dependency result and a built extends map are
\* served as they are, without asking the engine; a query that finds nothing
\* cached asks the engine; invalidate_template_cache(name),
\* invalidate_all_caches, a template change for name and a config change
\* remove the block metadata concerned and drop the extends map (which a
\* template change then rebuilds from the engine).
C15_CachedUntilInvalidated ==
  /\ g.op = "block_deps_for_template" =>
       /\ g.cached => g.deps = g.prior_deps
       /\ (~g.cached /\ g.env /\ ~g.raises /\ EngineBlockMetadata(g.name).ok)
            => g.deps = EngineBlockMetadata(g.name).meta
  /\ g.op = "templates_extending" =>
       /\ g.cached => g.children = g.prior_children
       /\ (~g.cached /\ g.env) => g.children = EngineChildren(g.name)
  /\ g.op = "invalidate_template_cache" =>
       (g.name \notin DOMAIN block_meta_cache /\ ~extends_map.built)
  /\ g.op = "invalidate_all_caches" =>
       (block_meta_cache = << >> /\ ~extends_map.built)
  /\ (Returned /\ cur.category = "template") =>
       /\ PathName(cur.path) \notin DOMAIN block_meta_cache
       /\ extends_map = [built |-> TRUE, children |-> build_extends_map(kida_env)]
  /\ (Returned /\ cur.category = "config") =>
       (block_meta_cache = << >> /\ ~extends_map.built)

\* A result is served from the cache although asking the engine again would
\* fail, and a template change is handled while the cache holds the entry
\* of another template.
C15_Witness ==
  \/ /\ g.op = "block_deps_for_template"
     /\ g.cached /\ g.raises /\ g.deps # <<>>
  \/ /\ Returned /\ cur.category = "template"
     /\ DOMAIN block_meta_cache # {}


\* ------------------------------------------------------------------------
\* C16: at the return of every content change whose file was read and
\* parsed, the cache entry of that file holds exactly the new document and
\* the new source text, whether or not an entry existed before, whether or
\* not the diff is empty, whether or not a page is backed by the file and
\* whether or not the renderer raised; the entries of the other files are
\* the ones the call started with.
C16_CacheHoldsLatestParse ==
  (ContentReturned /\ h.read_ok /\ h.parse_ok)
  => /\ h.new_source = disk[EventFile(cur)]
     /\ h.new_doc = Parse(h.new_source).doc
     /\ content_cache[EventFile(cur)] =
          [present |-> TRUE, doc |-> h.new_doc, source |-> h.new_source]
     /\ \A f \in Files \ {EventFile(cur)} : content_cache[f] = h.pre_cache[f]

\* A parsed change of a file that had no entry and backs no page, while
\* another file has an entry that must survive.
C16_Witness ==
  /\ ContentReturned /\ h.read_ok /\ h.parse_ok
  /\ ~h.pre_cache[EventFile(cur)].present
  /\ FirstPageOf(EventFile(cur)) = 0
  /\ \E f \in Files \ {EventFile(cur)} : content_cache[f].present

\* A parsed change whose document equals the cached one (empty diff) and
\* whose source text differs from the cached one.
C16_WitnessEmptyDiff ==
  /\ ContentReturned /\ h.read_ok /\ h.parse_ok
  /\ h.diffed /\ h.changes = <<>>
  /\ h.pre_cache[EventFile(cur)].source # h.new_source


\* ------------------------------------------------------------------------
\* C17: whatever the files hold when seed_ast_cache runs, every page whose
\* source file can be read and parsed gets the entry (its document, its
\* text), also when the file of a page earlier in site.pages cannot be read
\* or parsed; until the first change is handled the cache is exactly that
\* seeding, and the first change of a seeded file has a previous document
\* and is diffed against it (unless the renderer raises before the diff).
SeedDisks == [Files -> Sources \cup {"unreadable"}]

Seedable(d, page) ==
  /\ page.source_path # "None"
  /\ d[page.source_path] # "unreadable"
  /\ Parse(d[page.source_path]).ok

C17_WitnessFailure ==
  /\ handled = <<>>
  /\ disk["f1"] = "bad" /\ ~content_cache["f1"].present
  /\ content_cache["f3"].present


\* ------------------------------------------------------------------------
\* C18: every subscriber queue has a fixed positive capacity and the messages
\* waiting in it never exceed that capacity.
C18_QueueBounded ==
  \A c \in Conns :
    Len(queue[c]) > 0 => (maxsize > 0 /\ Len(queue[c]) <= maxsize)


\* ------------------------------------------------------------------------
\* C19: from the start of a handle_change call to its return no other
\* callback of the loop runs on account of an enqueue: the messages a queue
\* held when the call started are still there, in place, whatever their
\* number, and the call's own messages come after them.
InCall == pc \notin {"none", "done", "cancelled"} /\ ~AwaitSuspends(pc)

C20_DisconnectedIsUnsubscribed ==
  \A c \in Conns : (stream[c] = "dropped") ~> (c \notin AllSubscribed)


\* ------------------------------------------------------------------------
\* C21: the step in which one client's stream is cancelled or closed leaves
\* every other connection's subscription, stream and queued messages as they
\* were, changes none of the pipeline's caches and rendered pages, and
\* touches no handle_change call (no exception, no message of its own).
C21_CloseLeavesOthersAlone ==
  [][ \A c \in Conns :
        SseDisconnect(c) =>
          /\ \A d \in Conns \ {c} :
               /\ queue'[d] = queue[d]
               /\ stream'[d] = stream[d]
               /\ \A p \in Permalinks :
                    (d \in get_subscribers(subscribers', p))
                      <=> (d \in get_subscribers(subscribers, p))
          /\ UNCHANGED << content_cache, page_html, block_meta_cache,
                          extends_map, pc, cur, h, handled >> ]_vars

\* One client's stream has just been closed while another client is
\* subscribed, streaming and holds a message it has not taken.
C21_Witness ==
  /\ g.op = "client_generator.close"
  /\ stream[g.name] = "none"
  /\ \E d \in Conns \ {g.name} :
       /\ d \in AllSubscribed
       /\ stream[d] = "streaming"
       /\ queue[d] # <<>>


\* ------------------------------------------------------------------------
\* C22: with threads subscribing and unsubscribing while the loop pushes, the
\* set a push iterates stays the set that was in the map when the snapshot
\* was taken under the lock (the iteration never fails and delivers to
\* exactly those connections); a get_subscribed_pages snapshot never holds a
\* page without a subscriber; whenever nobody holds the lock no page of the
\* map has an empty set; and a subscribe or unsubscribe that completed has
\* changed the map as if it had run alone.
C22_SnapshotsUnderLock ==
  /\ ~bc.error
  /\ bc.pages_ok
  /\ bc.tpc["loop"] = "iterate" =>
       /\ bc.snap.val = bc.at_snap
       /\ bc.sent \cup bc.todo = bc.at_snap
       /\ bc.count = Cardinality(bc.sent)
  /\ bc.lock = "free" => \A p \in DOMAIN subscribers : subscribers[p] # {}
  /\ \A t \in Mutators :
       /\ bc.tpc[t] = "subscribed" =>
            subscribers = subscribe(bc.pre, bc.page[t], ThreadConn(t))
       /\ bc.tpc[t] = "unsubscribed" =>
            subscribers = unsubscribe(bc.pre, bc.page[t], ThreadConn(t))

\* A push has delivered to one connection of its snapshot and has another
\* to go, while the page's set in the map is no longer the one it copied.
C22_Witness ==
  /\ bc.tpc["loop"] = "iterate"
  /\ bc.sent # {} /\ bc.todo # {}
  /\ get_subscribers(subscribers, bc.page["loop"]) # bc.at_snap


\* ------------------------------------------------------------------------
\* C23: right after the caller of block_deps_for_template or of
\* templates_extending has emptied the collection it was given, the same
\* call (engine unchanged, no invalidation in between) returns what it
\* returned before.
C23_ReturnedValuesAreSnapshots ==
  (g.op = "caller_mutates" /\ g.env = kida_env) =>
    /\ g.accessor = "block_deps_for_template" =>
         \A analysis_raises \in BOOLEAN :
           block_deps_for_template(block_meta_cache, kida_env, analysis_raises,
                                   g.name).deps = g.deps
    /\ g.accessor = "templates_extending" =>
         templates_extending(extends_map, kida_env, g.name).children = g.children


\* ------------------------------------------------------------------------
\* C24: when unsubscribe(permalink, conn) has run to its end, conn is not
\* subscribed under permalink; and if it was not subscribed under it when
\* the call began, also when nobody was, the subscriber map, the subscriber
\* count and the subscribed pages are what they were.  (A second unsubscribe
\* of the same connection is such a call.)
C24_UnsubscribeAbsentIsNoOp ==
  \A t \in Mutators :
    bc.tpc[t] = "unsubscribed" =>
      /\ ThreadConn(t) \notin get_subscribers(subscribers, bc.page[t])
      /\ ThreadConn(t) \notin get_subscribers(bc.pre, bc.page[t]) =>
           /\ subscribers = bc.pre
           /\ subscriber_count(subscribers) = subscriber_count(bc.pre)
           /\ get_subscribed_pages(subscribers) = get_subscribed_pages(bc.pre)
           /\ \A p \in Permalinks :
                get_subscribers(subscribers, p) = get_subscribers(bc.pre, p)

\* An unsubscribe for a page nobody subscribes to has run to its end while
\* another page has a subscriber.
C24_Witness ==
  \E t \in Mutators :
    /\ bc.tpc[t] = "unsubscribed"
    /\ bc.page[t] \notin DOMAIN bc.pre
    /\ DOMAIN bc.pre # {}


\* ------------------------------------------------------------------------
\* C25: a push_updates call adds to each connection's queue, after what was
\* there, one fragment for every update of its argument whose page the
\* connection is subscribed under, in the order of the updates, and returns
\* the number of messages added over all queues; a push_full_refresh call
\* adds one purr:refresh to each subscriber of the page and to nobody else,
\* and returns their number; both add nothing and return 0 when no page
\* concerned has a subscriber.
Added(c) ==
  SubSeq(g.post_queue[c], Len(g.pre_queue[c]) + 1, Len(g.post_queue[c]))

TotalAdded ==
  LET RECURSIVE total(_)
      total(cs) == IF cs = {} THEN 0
                   ELSE LET c == CHOOSE x \in cs : TRUE
                        IN Len(Added(c)) + total(cs \ {c})
  IN total(Conns)

FragmentsFor(c) ==
  LET mine == SelectSeq(g.updates,
                        LAMBDA u : c \in get_subscribers(g.pre_subs, u.permalink))
  IN [k \in 1..Len(mine) |-> Fragment(mine[k], 0)]

C25_CountIsMessagesEnqueued ==
  /\ g.op = "push_updates" =>
       /\ \A c \in Conns :
            /\ IsPrefix(g.pre_queue[c], g.post_queue[c])
            /\ Added(c) = FragmentsFor(c)
       /\ g.count = TotalAdded
       /\ (\A k \in 1..Len(g.updates) :
             get_subscribers(g.pre_subs, g.updates[k].permalink) = {})
            => (g.count = 0 /\ g.post_queue = g.pre_queue)
  /\ g.op = "push_full_refresh" =>
       /\ \A c \in Conns :
            /\ IsPrefix(g.pre_queue[c], g.post_queue[c])
            /\ Added(c) = IF c \in get_subscribers(g.pre_subs, g.page)
                            THEN << RefreshEvent(g.page, 0) >> ELSE << >>
       /\ g.count = Cardinality(get_subscribers(g.pre_subs, g.page))
       /\ g.count = TotalAdded

\* A push of two updates, one for a page with two subscribers and one for
\* a page with a single subscriber, while a connection still holds a message.
C25_Witness ==
  /\ g.op = "push_updates"
  /\ Len(g.updates) = 2
  /\ g.updates[1].permalink # g.updates[2].permalink
  /\ g.count = 3
  /\ \E c \in Conns : g.pre_queue[c] # <<>>

\* A full refresh of a page nobody subscribes to, while another page has a
\* subscriber.
C25_WitnessNobody ==
  /\ g.op = "push_full_refresh"
  /\ g.count = 0
  /\ DOMAIN g.pre_subs # {}


\* ------------------------------------------------------------------------
\* C26: for the template, block metadata and page of a map_changes call on
\* the changes B, and every tuple A whose changes all occur in B, each block
\* reported for A is reported for B, with context paths that include those
\* reported for A.
ChangesOf(t) == { t[k] : k \in 1..Len(t) }

BlocksOf(updates) == { updates[k].block_name : k \in 1..Len(updates) }

PathsOf(updates, block_name) ==
  UNION { updates[k].context_paths :
            k \in { j \in 1..Len(updates) : updates[j].block_name = block_name } }

C26_MapChangesMonotone ==
  g.op = "map_changes" =>
    \A A \in ChangeTuples :
      ChangesOf(A) \subseteq ChangesOf(g.changes) =>
        LET ra == map_changes(A, g.template, g.meta, g.page)
        IN /\ BlocksOf(ra) \subseteq BlocksOf(g.result)
           /\ \A b \in BlocksOf(ra) : PathsOf(ra, b) \subseteq PathsOf(g.result, b)

\* A call on two changes of different node types, one of which alone gives
\* fewer blocks than both together.
C26_Witness ==
  /\ g.op = "map_changes"
  /\ Len(g.changes) = 2
  /\ \E A \in ChangeTuples :
       /\ ChangesOf(A) \subseteq ChangesOf(g.changes)
       /\ A # <<>>
       /\ BlocksOf(map_changes(A, g.template, g.meta, g.page)) # {}
       /\ BlocksOf(map_changes(A, g.template, g.meta, g.page)) # BlocksOf(g.result)

\* ------------------------------------------------------------------------
\* C27: the result of map_changes has, for each block of the metadata whose
\* dependencies meet the union of the changes' context paths, exactly one
\* update, carrying that intersection, the permalink and the template name,
\* and nothing else; it is empty without changes or without metadata; a
\* change's context paths are the table entry of the type of its new node
\* (its old node when there is no new one), every type outside the table
\* has the fallback set, and the fallback set includes every table entry.
KnownNodeTypes ==
  {"Heading", "Paragraph", "FencedCode", "IndentedCode", "List", "ListItem",
   "BlockQuote", "Table", "ThematicBreak", "Directive", "MathBlock",
   "FootnoteDef", "HtmlBlock"}

ChangeNode(ch) == IF ch.new_node # NoNode THEN ch.new_node ELSE ch.old_node

AffectedPaths(changes) ==
  UNION { IF ChangeNode(ch).type \in KnownNodeTypes
            THEN CONTENT_CONTEXT_MAP(ChangeNode(ch).type)
            ELSE FALLBACK_CONTEXT_PATHS :
          ch \in { x \in ChangesOf(changes) : ChangeNode(x) # NoNode } }

C27_MapChangesExact ==
  /\ \A node_type \in KnownNodeTypes :
       CONTENT_CONTEXT_MAP(node_type) \subseteq FALLBACK_CONTEXT_PATHS
  /\ g.op = "map_changes" =>
       /\ \A i \in 1..Len(g.meta) :
            LET overlap == g.meta[i].deps \cap AffectedPaths(g.changes)
                hits == { k \in 1..Len(g.result) :
                            g.result[k].block_name = g.meta[i].block }
            IN IF overlap = {} THEN hits = {}
               ELSE /\ Cardinality(hits) = 1
                    /\ \A k \in hits :
                         g.result[k] =
                           [permalink |-> g.page, template_name |-> g.template,
                            block_name |-> g.meta[i].block,
                            context_paths |-> overlap]
       /\ \A k \in 1..Len(g.result) :
            \E i \in 1..Len(g.meta) : g.result[k].block_name = g.meta[i].block
       /\ (g.changes = <<>> \/ g.meta = <<>>) => g.result = <<>>

\* A call whose changes include one of an unknown node type and one that is
\* a removal, on metadata with a block that is hit and a block that is not.
C27_Witness ==
  /\ g.op = "map_changes"
  /\ \E ch \in ChangesOf(g.changes) : ch.kind = "removed"
  /\ \E ch \in ChangesOf(g.changes) :
       ChangeNode(ch) # NoNode /\ ChangeNode(ch).type \notin KnownNodeTypes
  /\ g.result # <<>>
  /\ Len(g.result) < Len(g.meta)


\* ------------------------------------------------------------------------
\* C28: when the old document is a prefix of the new one the diff is one
\* added entry (new node only) per extra position of the new document, at
\* paths (n), (n+1), ... in that order, n being the old length; when the new
\* document is a prefix of the old one it is the removed entries (old node
\* only) likewise; equal documents have an empty diff.
Trailing(kind, short, long) ==
  [k \in 1..(Len(long) - Len(short)) |->
     [kind |-> kind, path |-> << Len(short) + k - 1 >>,
      old_node |-> IF kind = "removed" THEN long[Len(short) + k] ELSE NoNode,
      new_node |-> IF kind = "added" THEN long[Len(short) + k] ELSE NoNode]]

C28_PrefixDiffIsTrailing ==
  g.op = "diff_documents" =>
    /\ IsPrefix(g.old, g.new) => g.result = Trailing("added", g.old, g.new)
    /\ IsPrefix(g.new, g.old) => g.result = Trailing("removed", g.new, g.old)
    /\ g.old = g.new => g.result = <<>>

\* The new document has two nodes more than the non-empty old one.
C28_Witness ==
  /\ g.op = "diff_documents"
  /\ g.old # <<>>
  /\ IsPrefix(g.old, g.new)
  /\ Len(g.new) = Len(g.old) + 2
  /\ Len(g.result) = 2

\* ------------------------------------------------------------------------
\* C29: at each index where both documents have a node, the entries of the
\* diff at that path are: none when the nodes are equal; a removed entry
\* (old node) immediately followed by an added entry (new node) when their
\* types differ; one modified entry with both nodes when the types are the
\* same.  The entries are in ascending order of index.
EntriesAt(i) == SelectSeq(g.result, LAMBDA e : e.path = << i >>)

C29_DiffAtCommonIndex ==
  g.op = "diff_documents" =>
    /\ \A k \in 1..(Len(g.result) - 1) :
         g.result[k].path[1] <= g.result[k + 1].path[1]
    /\ \A i \in 0..(Len(g.old) - 1) :
         i < Len(g.new) =>
           LET o == g.old[i + 1]
               n == g.new[i + 1]
           IN EntriesAt(i) =
                IF o = n THEN << >>
                ELSE IF o.type # n.type
                  THEN << [kind |-> "removed", path |-> << i >>,
                           old_node |-> o, new_node |-> NoNode],
                          [kind |-> "added", path |-> << i >>,
                           old_node |-> NoNode, new_node |-> n] >>
                ELSE << [kind |-> "modified", path |-> << i >>,
                         old_node |-> o, new_node |-> n] >>

\* One diff with an unchanged node, a node replaced by one of another type
\* and a node modified within its type.
C29_Witness ==
  /\ g.op = "diff_documents"
  /\ Len(g.old) = 3 /\ Len(g.new) = 3
  /\ g.old[1] = g.new[1]
  /\ g.old[2].type # g.new[2].type
  /\ g.old[3] # g.new[3] /\ g.old[3].type = g.new[3].type
  /\ Len(g.result) = 3

\* ------------------------------------------------------------------------
\* C30: for a modified entry whose nodes carry nested block children that
\* differ, the diff also has an entry below that node, with a path of
\* length two or more that starts with the node's index.
HasChildren(node) == "children" \in DOMAIN node

C30_DiffRecursesIntoChildren ==
  g.op = "diff_documents" =>
    \A k \in 1..Len(g.result) :
      ( /\ g.result[k].kind = "modified"
        /\ HasChildren(g.result[k].old_node)
        /\ HasChildren(g.result[k].new_node)
        /\ g.result[k].old_node.children # g.result[k].new_node.children )
      => \E j \in 1..Len(g.result) :
           /\ Len(g.result[j].path) >= 2
           /\ g.result[j].path[1] = g.result[k].path[1]


\* ------------------------------------------------------------------------
\* C31: edit_start is the length of the longest common prefix; identical
\* strings give (len, len, 0); strings without a common prefix and without
\* a common suffix give (0, len(old), len(new)); in general edit_end and
\* new_length leave out the longest common suffix that stays clear of the
\* common prefix in both strings.
ShorterLen(a, b) == (IF Len(a) < Len(b) THEN Len(a) ELSE Len(b))

CommonPrefixLen(a, b) ==
  CHOOSE k \in 0..ShorterLen(a, b) :
    /\ \A i \in 1..k : a[i] = b[i]
    /\ k < ShorterLen(a, b) => a[k + 1] # b[k + 1]

CommonSuffixLen(a, b, avoid) ==
  CHOOSE k \in 0..(ShorterLen(a, b) - avoid) :
    /\ \A i \in 0..(k - 1) : a[Len(a) - i] = b[Len(b) - i]
    /\ k < ShorterLen(a, b) - avoid => a[Len(a) - k] # b[Len(b) - k]

C31_EditRegionIsPrefixAndSuffix ==
  g.op = "_compute_edit_region" =>
    LET s == CommonPrefixLen(g.old, g.new)
        k == CommonSuffixLen(g.old, g.new, s)
    IN /\ g.result[1] = s
       /\ g.old = g.new => g.result = << Len(g.old), Len(g.old), 0 >>
       /\ (s = 0 /\ CommonSuffixLen(g.old, g.new, 0) = 0)
            => g.result = << 0, Len(g.old), Len(g.new) >>
       /\ g.old # g.new =>
            /\ g.result[2] = Len(g.old) - k
            /\ g.result[3] = Len(g.new) - s - k

\* A call on different strings that share a prefix and a suffix, where the
\* suffix scan has to stop at the prefix (as for "aa" against "a").
C31_Witness ==
  /\ g.op = "_compute_edit_region"
  /\ g.old # g.new
  /\ g.result[1] > 0
  /\ CommonSuffixLen(g.old, g.new, 0) > CommonSuffixLen(g.old, g.new, g.result[1])

\* ------------------------------------------------------------------------
\* C35: the triple (s, e, n) describes one contiguous replacement:
\* 0 <= s <= e <= len(old), n >= 0, s + n <= len(new), and
\* old[:s] + new[s:s+n] + old[e:] = new.
Slice(sq, from, to) == SubSeq(sq, from + 1, to)

C35_EditRegionIsValidReplacement ==
  g.op = "_compute_edit_region" =>
    LET s == g.result[1]
        e == g.result[2]
        n == g.result[3]
    IN /\ 0 <= s /\ s <= e /\ e <= Len(g.old)
       /\ n >= 0
       /\ s + n <= Len(g.new)
       /\ Slice(g.old, 0, s) \o Slice(g.new, s, s + n) \o Slice(g.old, e, Len(g.old))
            = g.new

\* A call whose region replaces some text by text of another length,
\* between a kept prefix and a kept suffix.
C35_Witness ==
  /\ g.op = "_compute_edit_region"
  /\ g.result[1] > 0
  /\ g.result[2] < Len(g.old)
  /\ g.result[3] > 0
  /\ g.result[3] # g.result[2] - g.result[1]


\* ------------------------------------------------------------------------
\* C32: a file directly in the root named purr.yaml, purr.yml or purr.toml
\* is config; otherwise the first segment below the root selects content,
\* template, asset or route by the configured names, in that order; the
\* root itself, a path outside the root and every other path have no
\* category, and nothing is enqueued for them.
Below(path, root) ==
  IF IsPrefix(root, path) THEN [j \in 1..(Len(path) - Len(root)) |-> path[Len(root) + j]]
  ELSE <<>>

C32_CategoryFromFirstSegment ==
  g.op = "_watch_loop" =>
    LET rel == Below(g.path, g.config.root)
        is_config == Len(rel) = 1 /\ rel[1] \in {"purr.yaml", "purr.yml", "purr.toml"}
        first == IF rel = <<>> THEN "" ELSE rel[1]
    IN /\ is_config => g.category = "config"
       /\ (rel # <<>> /\ ~is_config) =>
            /\ first = g.config.content_dir => g.category = "content"
            /\ (first # g.config.content_dir /\ first = g.config.templates_dir)
                 => g.category = "template"
            /\ (first \notin {g.config.content_dir, g.config.templates_dir}
                /\ first = g.config.static_dir) => g.category = "asset"
            /\ (first \notin {g.config.content_dir, g.config.templates_dir,
                              g.config.static_dir}
                /\ first = g.config.routes_dir) => g.category = "route"
            /\ first \notin {g.config.content_dir, g.config.templates_dir,
                             g.config.static_dir, g.config.routes_dir}
                 => g.category = "None"
       /\ rel = <<>> => g.category = "None"
       /\ g.category = "None" => wqueue = <<>>
       /\ g.category # "None" =>
            wqueue = << [id |-> 0, path |-> g.path, category |-> g.category] >>

\* A path outside the root whose first segment is a configured directory
\* name has been looked at and nothing was enqueued.
C32_Witness ==
  /\ g.op = "_watch_loop"
  /\ ~IsPrefix(g.config.root, g.path)
  /\ g.path # <<>>
  /\ g.path[1] = g.config.content_dir
  /\ g.category = "None"
  /\ wqueue = <<>>

\* A directory setting shared by two categories goes to the earlier one.
C32_WitnessOrder ==
  /\ g.op = "_watch_loop"
  /\ g.config.templates_dir = g.config.content_dir
  /\ g.category = "content"


\* ------------------------------------------------------------------------
\* C33: a content change goes through its stages only in the order
\* classified, parsed, diffed, mapped, recompiled, broadcast; for each page
\* the mapping is computed before recompilation is attempted and both come
\* before an enqueue for that page; errored may follow any stage.
StageRank(name) ==
  CASE name = "classified" -> 1
    [] name = "parsed" -> 2
    [] name = "diffed" -> 3
    [] name = "mapped" -> 4
    [] name = "recompiled" -> 5
    [] name = "broadcast" -> 6
    [] OTHER -> 7

C33_StagesInOrder ==
  \A i \in 1..Len(h.stages) : \A j \in 1..Len(h.stages) :
    ( /\ i < j
      /\ \/ h.stages[i].page = h.stages[j].page
         \/ h.stages[i].page = 0
         \/ h.stages[j].page = 0 )
      => StageRank(h.stages[i].stage) <= StageRank(h.stages[j].stage)

\* Apart from the order of mapping and recompilation the stages of a call
\* are in the order claimed.
C33_OrderExceptRecompile ==
  \A i \in 1..Len(h.stages) : \A j \in 1..Len(h.stages) :
    ( /\ i < j
      /\ \/ h.stages[i].page = h.stages[j].page
         \/ h.stages[i].page = 0
         \/ h.stages[j].page = 0
      /\ { h.stages[i].stage, h.stages[j].stage } # { "mapped", "recompiled" } )
      => StageRank(h.stages[i].stage) <= StageRank(h.stages[j].stage)


\* ------------------------------------------------------------------------
\* C34: _parse_content_incremental does a full parse exactly when the file
\* has no cached entry; with an entry whose source equals the new source it
\* returns the cached document without parsing; otherwise it calls the
\* incremental parser with the cached document and the edit region between
\* the cached and the new source; when the parser raises it returns no
\* document.
Parsed == cur.category = "content" /\ h.parser.fn # "unset"

C34_WitnessRaises ==
  /\ Parsed
  /\ h.parser.fn = "parse_incremental"
  /\ ~h.parse_ok


\* ------------------------------------------------------------------------
\* C36: handling the same content change a second time, with the file
\* unchanged in between, enqueues no message on any subscriber queue and
\* leaves the content cache as the first handling left it.
RepeatReturned == pc = "returned" /\ h.repeat

C36_SecondHandlingIsNoOp ==
  RepeatReturned => /\ queue = h.pre_queue
                    /\ content_cache = h.pre_cache

\* C36, amended: the second handling leaves the content cache as the first
\* left it, and enqueues no message unless re-rendering the page raises;
\* then every subscriber gets the purr:error of the second handling and
\* nothing else.
C36_SecondHandlingIsNoOpUnlessRenderRaises ==
  RepeatReturned =>
    /\ content_cache = h.pre_cache
    /\ ~h.raised => queue = h.pre_queue
    /\ h.raised =>
         /\ h.fault = "render"
         /\ queue = broadcast_error(subscribers, h.pre_queue,
                                    AllSubscribedPages, cur.id)

\* A second handling of a file that is read and parsed, with a subscriber
\* connected, has gone through the comparison of the documents and returned.
C36_Witness ==
  /\ RepeatReturned
  /\ h.diffed
  /\ ~h.raised
  /\ AllSubscribed # {}
  /\ h.pre_cache[EventFile(cur)].source = h.new_source


\* ------------------------------------------------------------------------
\* C37: after any sequence of subscribe, unsubscribe, get_subscribers and
\* push calls, get_subscribed_pages is the set of pages with at least one
\* current subscriber and subscriber_count is the number of current
\* subscriptions; no page with an empty subscriber set is listed, and
\* reading the subscribers of an unknown page does not add the page.
C37_PagesAndCountMatchSubscriptions ==
  /\ get_subscribed_pages(subscribers) = { s[1] : s \in g.subscriptions }
  /\ subscriber_count(subscribers) = Cardinality(g.subscriptions)
  /\ \A p \in get_subscribed_pages(subscribers) :
       get_subscribers(subscribers, p) # {}
  /\ g.op \in {"get_subscribers", "push_full_refresh"} =>
       /\ subscribers = g.pre_subs
       /\ g.page \notin DOMAIN g.pre_subs =>
            g.page \notin get_subscribed_pages(subscribers)

\* The subscribers of a page nobody subscribes to have been read while
\* another page has two subscribers.
C37_Witness ==
  /\ g.op = "get_subscribers"
  /\ g.page \notin DOMAIN g.pre_subs
  /\ g.result.val = {}
  /\ get_subscribed_pages(subscribers) # {}
  /\ subscriber_count(subscribers) = 2

\* ------------------------------------------------------------------------
\* C38: a connection is identified by (client_id, permalink), not by its
\* queue: subscribing a second object with the same pair under the same
\* page adds no subscriber, and a later push for the page reaches the queue
\* of only one of the two objects.
SamePair(a, b) ==
  ConnClientId(a) = ConnClientId(b) /\ ConnPermalink(a) = ConnPermalink(b)

C38_SamePairIsOneSubscriber ==
  /\ ( /\ g.op = "subscribe"
       /\ \E x \in get_subscribers(g.pre_subs, g.page) : SamePair(x, g.name) )
       => /\ get_subscribers(subscribers, g.page) = g.pre_subs[g.page]
          /\ subscriber_count(subscribers) = Cardinality(g.subscriptions)
  /\ \A p \in DOMAIN subscribers :
       \A a \in subscribers[p] : \A b \in subscribers[p] :
         SamePair(a, b) => a = b
  /\ g.op = "push_full_refresh" =>
       \A a \in DOMAIN g.post_queue : \A b \in DOMAIN g.post_queue :
         ( /\ a # b
           /\ SamePair(a, b)
           /\ g.post_queue[a] # g.pre_queue[a] )
           => g.post_queue[b] = g.pre_queue[b]

\* Both objects of a pair were given to subscribe under the page, and a push
\* for the page has reached one queue.
C38_Witness ==
  /\ g.op = "push_full_refresh"
  /\ g.page \in g.twice
  /\ g.count = 1
  /\ \E a \in {"c1", "c1b"} : g.post_queue[a] # g.pre_queue[a]


\* ------------------------------------------------------------------------
\* C39: invalidate_template_cache(name) removes the block metadata entry of
\* name and no other: the entry of every other template, a template that
\* extends name included, is the same afterwards, and a query for it is
\* answered from the cache, with the same result, without asking the engine
\* (a query that asked would fail here, the analysis being made to raise).
C39_InvalidateRemovesOnlyName ==
  [][ g'.op = "invalidate_template_cache" =>
        /\ g'.name \notin DOMAIN block_meta_cache'
        /\ \A t \in Templates \ { g'.name } :
             /\ t \in DOMAIN block_meta_cache' <=> t \in DOMAIN block_meta_cache
             /\ t \in DOMAIN block_meta_cache =>
                  /\ block_meta_cache'[t] = block_meta_cache[t]
                  /\ block_deps_for_template(block_meta_cache', kida_env', TRUE, t)
                       = [deps |-> block_meta_cache[t], cache |-> block_meta_cache']
    ]_vars

\* page.html had an entry and was invalidated, and post.html, which extends
\* it, still has its entry.
C39_Witness ==
  /\ g.op = "invalidate_template_cache"
  /\ g.name = "page.html"
  /\ g.cached
  /\ EngineExtends("post.html") = "page.html"
  /\ "post.html" \in DOMAIN block_meta_cache
  /\ block_meta_cache["post.html"] = EngineBlockMetadata("post.html").meta


\* ------------------------------------------------------------------------
\* C40: over any sequence of start and stop calls at most one watcher
\* thread is alive in _watch_loop: a start while running adds none, and a
\* start after a stop does not run next to a thread of an earlier start.
WatcherThreads == (IF is_running THEN 1 ELSE 0) + leftover

C40_AtMostOneWatcherThread == WatcherThreads <= 1

\* While no stop has timed out there is at most one thread, and a start
\* while running changes nothing.
C40_OneThreadWhileJoinsSucceed ==
  [][ (leftover = 0 /\ leftover' = 0) =>
        /\ WatcherThreads' <= 1
        /\ (is_running /\ is_running') => UNCHANGED << wthread, stop_event >> ]_vars

====
